---- MODULE Spec2Model ----
(***************************************************************************)
(* Spellcheck subsystem of wrtr: the MarkdownSpellchecker engine           *)
(* (services/spellcheck.py), the singleton loader                          *)
(* (services/spellcheck_service.py), the editor's background scan worker   *)
(* (editor/spellcheck.py) and the spellcheck key handlers                  *)
(* (editor/keybindings.py).                                                *)
(*                                                                         *)
(* Text is a sequence of one-character strings.  Offsets are 0-based as in *)
(* the Python source: the character at offset k of text t is t[k+1].       *)
(***************************************************************************)
EXTENDS Integers, Sequences, FiniteSets, TLC

---------------------------------------------------------------------------
(* Bounds of the model                                                     *)

\* _spell_worker tasks alive at once
MaxWorkers == 2
\* key events in a run: typed characters and spellcheck keys
MaxKeys == 4
\* dictionary loads started in a run
MaxLoads == 2
\* the count at which an index entry saturates (sys.maxsize in symspellpy)
CountCap == 3
\* length of the documents given to the position conversions
MaxTextLen == 4

---------------------------------------------------------------------------
(* Characters                                                              *)

UpperSeq == << "A","B","C","D","E","F","G","H","I","J","K","L","M",
               "N","O","P","Q","R","S","T","U","V","W","X","Y","Z" >>
LowerSeq == << "a","b","c","d","e","f","g","h","i","j","k","l","m",
               "n","o","p","q","r","s","t","u","v","w","x","y","z" >>
UpperLetters == { UpperSeq[i] : i \in 1..26 }
LowerLetters == { LowerSeq[i] : i \in 1..26 }
Digits == { "0","1","2","3","4","5","6","7","8","9" }
Whitespace == { " ", "\n", "\t" }
Apostrophe == "'"
\* U+2019 and U+2018, each one character of the text
SmartApostrophes == { "U+2019", "U+2018" }

\* regex \w
IsWordChar(c) == c \in UpperLetters \cup LowerLetters \cup Digits \cup {"_"}
\* regex [\w']
IsTokenChar(c) == IsWordChar(c) \/ c = Apostrophe

\* str.lower() and str.upper() on one character
LowerChar(c) ==
    IF c \in UpperLetters
    THEN LowerSeq[CHOOSE i \in 1..26 : UpperSeq[i] = c]
    ELSE c
UpperChar(c) ==
    IF c \in LowerLetters
    THEN UpperSeq[CHOOSE i \in 1..26 : LowerSeq[i] = c]
    ELSE c
Lower(w) == [i \in 1..Len(w) |-> LowerChar(w[i])]

Min2(a, b) == IF a <= b THEN a ELSE b
SetMax(S) == CHOOSE x \in S : \A y \in S : y <= x
SetMin(S) == CHOOSE x \in S : \A y \in S : x <= y

\* Python slice t[a:b] with 0-based, clamped bounds
Slice(t, a, b) == SubSeq(t, Min2(a, Len(t)) + 1, Min2(b, Len(t)))

\* text.replace(U+2019, "'").replace(U+2018, "'")
NormalizeApostrophes(t) ==
    [i \in 1..Len(t) |-> IF t[i] \in SmartApostrophes THEN Apostrophe ELSE t[i]]

---------------------------------------------------------------------------
(* Tokenizer: re.finditer(r"\b[\w']+\b", text)                             *)

\* \b at offset k: exactly one neighbour is a word character
Boundary(t, k) ==
    LET before == k > 0 /\ IsWordChar(t[k])
        after  == k < Len(t) /\ IsWordChar(t[k + 1])
    IN before # after

\* end of the maximal [\w']* run that starts at offset s
RECURSIVE RunEnd(_, _)
RunEnd(t, s) ==
    IF s < Len(t) /\ IsTokenChar(t[s + 1]) THEN RunEnd(t, s + 1) ELSE s

MaxOrNone(S) == IF S = {} THEN -1 ELSE SetMax(S)
MinOrNone(S) == IF S = {} THEN -1 ELSE SetMin(S)

\* end offset of the match of \b[\w']+\b anchored at s, or -1
TokenEndAt(t, s) ==
    IF s < Len(t) /\ IsTokenChar(t[s + 1]) /\ Boundary(t, s)
    THEN MaxOrNone({ e \in (s + 1)..RunEnd(t, s) : Boundary(t, e) })
    ELSE -1

\* [m for m in word_pattern.finditer(text)] from offset i on
RECURSIVE FindTokens(_, _)
TokenOrSkip(t, i, e) ==
    IF e = -1 THEN FindTokens(t, i + 1)
    ELSE << [start |-> i, end |-> e] >> \o FindTokens(t, e)
FindTokens(t, i) ==
    IF i >= Len(t) THEN << >> ELSE TokenOrSkip(t, i, TokenEndAt(t, i))

---------------------------------------------------------------------------
(* Exclusion spans: url_pattern and link_pattern of check_text             *)

StartsWith(t, s, lit) ==
    /\ s + Len(lit) <= Len(t)
    /\ \A i \in 1..Len(lit) : t[s + i] = lit[i]

\* end of the maximal [^\s]* run that starts at offset s
RECURSIVE NonSpaceEnd(_, _)
NonSpaceEnd(t, s) ==
    IF s < Len(t) /\ t[s + 1] \notin Whitespace THEN NonSpaceEnd(t, s + 1) ELSE s

\* a literal prefix followed by [^\s]+ anchored at s: end offset or -1
PrefixedRunEnd(t, s, prefix) ==
    IF StartsWith(t, s, prefix) /\ NonSpaceEnd(t, s + Len(prefix)) > s + Len(prefix)
    THEN NonSpaceEnd(t, s + Len(prefix))
    ELSE -1

\* https?://[^\s]+|www\.[^\s]+ anchored at s: end offset or -1
UrlEndAt(t, s) ==
    IF s < Len(t) /\ t[s + 1] = "h"
    THEN MaxOrNone({ PrefixedRunEnd(t, s, << "h","t","t","p","s",":","/","/" >>),
                     PrefixedRunEnd(t, s, << "h","t","t","p",":","/","/" >>) })
    ELSE PrefixedRunEnd(t, s, << "w","w","w","." >>)

NoNewline(t, a, b) == \A i \in a..(b - 1) : t[i + 1] # "\n"

\* offsets of a ")" that can end the link whose "](" is at offset j
LinkClosers(t, j) ==
    { k \in (j + 2)..(Len(t) - 1) : t[k + 1] = ")" /\ NoNewline(t, j + 2, k) }

\* first "](" after the "[" at s that some ")" can follow, or -1
LinkMiddle(t, s) ==
    MinOrNone({ j \in (s + 1)..(Len(t) - 2) :
                  /\ t[j + 1] = "]" /\ t[j + 2] = "("
                  /\ NoNewline(t, s + 1, j)
                  /\ LinkClosers(t, j) # {} })

LinkEndFrom(t, j) == IF j = -1 THEN -1 ELSE SetMin(LinkClosers(t, j)) + 1

\* \[.*?\]\(.*?\) anchored at s: end offset or -1 ('.' excludes newline)
LinkEndAt(t, s) ==
    IF s < Len(t) /\ t[s + 1] = "[" THEN LinkEndFrom(t, LinkMiddle(t, s)) ELSE -1

\* [(m.start(), m.end()) for m in url_pattern.finditer(text)]
RECURSIVE FindUrlSpans(_, _)
UrlOrSkip(t, i, e) ==
    IF e = -1 THEN FindUrlSpans(t, i + 1)
    ELSE << [start |-> i, end |-> e] >> \o FindUrlSpans(t, e)
FindUrlSpans(t, i) ==
    IF i >= Len(t) THEN << >> ELSE UrlOrSkip(t, i, UrlEndAt(t, i))

\* [(m.start(), m.end()) for m in md_link_pattern.finditer(text)]
RECURSIVE FindLinkSpans(_, _)
LinkOrSkip(t, i, e) ==
    IF e = -1 THEN FindLinkSpans(t, i + 1)
    ELSE << [start |-> i, end |-> e] >> \o FindLinkSpans(t, e)
FindLinkSpans(t, i) ==
    IF i >= Len(t) THEN << >> ELSE LinkOrSkip(t, i, LinkEndAt(t, i))

\* url_spans after url_spans.extend(link_spans)
ExclusionSpans(t) == FindUrlSpans(t, 0) \o FindLinkSpans(t, 0)

InSpans(spans, pos) ==
    \E i \in 1..Len(spans) : spans[i].start <= pos /\ pos < spans[i].end

---------------------------------------------------------------------------
(* SymSpell index (symspellpy): a map term -> count                        *)

\* Damerau-Levenshtein (optimal string alignment) distance of a[1..i], b[1..j]
RECURSIVE Osa(_, _, _, _)
Osa(a, b, i, j) ==
    IF i = 0 THEN j
    ELSE IF j = 0 THEN i
    ELSE LET del == Osa(a, b, i - 1, j) + 1
             ins == Osa(a, b, i, j - 1) + 1
             sub == Osa(a, b, i - 1, j - 1) + (IF a[i] = b[j] THEN 0 ELSE 1)
             best == Min2(del, Min2(ins, sub))
         IN IF i > 1 /\ j > 1 /\ a[i] = b[j - 1] /\ a[i - 1] = b[j]
            THEN Min2(best, Osa(a, b, i - 2, j - 2) + 1)
            ELSE best

EditDistance(a, b) == Osa(a, b, Len(a), Len(b))

\* max_edit_distance=2 in every lookup call of check_text
MaxEditDistance == 2

\* SymSpell.create_dictionary_entry(key, count): inserts, or adds to the
\* stored count, which saturates (sys.maxsize in symspellpy, CountCap here)
CreateDictionaryEntry(sym, key, count) ==
    IF key \in DOMAIN sym
    THEN [sym EXCEPT ![key] = Min2(@ + count, CountCap)]
    ELSE [w \in DOMAIN sym \cup {key} |->
            IF w = key THEN Min2(count, CountCap) ELSE sym[w]]

RECURSIVE CreateEntries(_, _)
CreateEntries(sym, terms) ==
    IF terms = {} THEN sym
    ELSE LET t == CHOOSE x \in terms : TRUE
         IN CreateEntries(CreateDictionaryEntry(sym, t, 1), terms \ {t})

CharOrd(c) ==
    IF c \in LowerLetters THEN 96 + (CHOOSE i \in 1..26 : LowerSeq[i] = c)
    ELSE IF c \in UpperLetters THEN 64 + (CHOOSE i \in 1..26 : UpperSeq[i] = c)
    ELSE IF c \in Digits THEN 48
    ELSE IF c = "_" THEN 95
    ELSE 39

RECURSIVE WordBefore(_, _)
WordBefore(a, b) ==
    IF a = << >> THEN b # << >>
    ELSE IF b = << >> THEN FALSE
    ELSE IF CharOrd(Head(a)) # CharOrd(Head(b)) THEN CharOrd(Head(a)) < CharOrd(Head(b))
    ELSE WordBefore(Tail(a), Tail(b))

\* faulty variant: items ordered by term alone
ItemBeforeByTerm(x, y) == WordBefore(x.term, y.term)

\* SuggestItem.__lt__: by distance, then by count descending; items equal
\* in both keep a fixed order
ItemBefore(x, y) ==
    \/ x.distance < y.distance
    \/ x.distance = y.distance /\ x.count > y.count
    \/ x.distance = y.distance /\ x.count = y.count /\ WordBefore(x.term, y.term)

First(S) == CHOOSE x \in S : \A y \in S \ {x} : ItemBefore(x, y)

RECURSIVE SortItems(_)
SortFrom(S, m) ==
    << [term |-> m.term, distance |-> m.distance] >> \o SortItems(S \ {m})
SortItems(S) == IF S = {} THEN << >> ELSE SortFrom(S, First(S))

\* the suggestions of a lookup, from the items found within the distance
Suggestions(found, phrase, verbosity) ==
    IF found = {}
    THEN << [term |-> phrase, distance |-> MaxEditDistance + 1] >>
    ELSE IF verbosity = "TOP"
    THEN << [term |-> First(found).term, distance |-> First(found).distance] >>
    ELSE SortItems(found)

\* SymSpell.lookup(phrase, verbosity, max_edit_distance=2, include_unknown=True)
Lookup(sym, phrase, verbosity) ==
    Suggestions(
        { x \in { [term |-> w, count |-> sym[w],
                   distance |-> IF Len(w) - Len(phrase) > MaxEditDistance
                                   \/ Len(phrase) - Len(w) > MaxEditDistance
                                THEN MaxEditDistance + 1
                                ELSE EditDistance(phrase, w)] : w \in DOMAIN sym } :
            x.distance <= MaxEditDistance },
        phrase, verbosity)

---------------------------------------------------------------------------
(* MarkdownSpellchecker.check_text: the per-token skip policy and lookup   *)

\* str.strip("'")
RECURSIVE StripApostrophes(_)
StripApostrophes(w) ==
    IF w = << >> THEN w
    ELSE IF Head(w) = Apostrophe THEN StripApostrophes(Tail(w))
    ELSE IF w[Len(w)] = Apostrophe THEN StripApostrophes(SubSeq(w, 1, Len(w) - 1))
    ELSE w

EndsWith(w, suffix) ==
    /\ Len(w) >= Len(suffix)
    /\ SubSeq(w, Len(w) - Len(suffix) + 1, Len(w)) = suffix

\* str.isdigit()
IsDigitWord(w) == w # << >> /\ \A i \in 1..Len(w) : w[i] \in Digits

\* ordinal_pattern = ^\d+(st|nd|rd|th)$
IsOrdinal(w) ==
    /\ Len(w) >= 3
    /\ IsDigitWord(SubSeq(w, 1, Len(w) - 2))
    /\ SubSeq(w, Len(w) - 1, Len(w)) \in
          { << "s","t" >>, << "n","d" >>, << "r","d" >>, << "t","h" >> }

\* sugg[0].term.lower() == w and sugg[0].distance == 0
ExactIn(sugg, w) == Lower(sugg[1].term) = w /\ sugg[1].distance = 0

\* exact hit of the TOP lookup of w
IsExactHit(sym, w) == ExactIn(Lookup(sym, w, "TOP"), w)

\* the chain of `continue` tests of the token loop, lw = word.lower()
SkipTests(sym, user_terms, ignored_terms, spans, word, lw, pos) ==
    \/ lw = << "'", "s" >> \/ EndsWith(lw, << "'", "s" >>) \/ lw = << "s" >>
    \/ /\ (Head(lw) = Apostrophe \/ lw[Len(lw)] = Apostrophe) /\ Len(lw) > 1
       /\ StripApostrophes(lw) # << >>
       /\ IsExactHit(sym, StripApostrophes(lw))
    \/ lw \in user_terms
    \/ lw \in ignored_terms
    \/ InSpans(spans, pos)
    \/ IsOrdinal(word) \/ IsDigitWord(word)
    \/ word[1] \in UpperLetters /\ IsExactHit(sym, lw)

\* faulty variant: the token loop without the ignored_terms test
ShouldSkipIgnoringNothing(sym, user_terms, ignored_terms, spans, word, pos) ==
    SkipTests(sym, user_terms, {}, spans, word, Lower(word), pos)

ShouldSkip(sym, user_terms, ignored_terms, spans, word, pos) ==
    SkipTests(sym, user_terms, ignored_terms, spans, word, Lower(word), pos)

\* the entry records its offset one character late: a faulty variant
EntryShifted(word, sugg, pos) ==
    IF Lower(sugg[1].term) # Lower(word)
    THEN << [word |-> word, sugg |-> sugg, pos |-> pos + 1] >>
    ELSE << >>

\* lines 226-229: the entry appended for a token that was not skipped
EntryFor(word, sugg, pos) ==
    IF Lower(sugg[1].term) # Lower(word)
    THEN << [word |-> word, sugg |-> sugg, pos |-> pos] >>
    ELSE << >>

\* one iteration of the token loop
ScanToken(sym, user_terms, ignored_terms, spans, word, pos) ==
    IF ShouldSkip(sym, user_terms, ignored_terms, spans, word, pos)
    THEN << >>
    ELSE EntryFor(word, Lookup(sym, word, "ALL"), pos)

\* the entries appended for tokens toks[i..], in scan order
RECURSIVE ScanTokens(_, _, _, _, _, _, _)
ScanTokens(sym, user_terms, ignored_terms, spans, t, toks, i) ==
    IF i > Len(toks) THEN << >>
    ELSE ScanToken(sym, user_terms, ignored_terms, spans,
                   Slice(t, toks[i].start, toks[i].end), toks[i].start)
         \o ScanTokens(sym, user_terms, ignored_terms, spans, t, toks, i + 1)

ScanNormalized(sym, user_terms, ignored_terms, t) ==
    ScanTokens(sym, user_terms, ignored_terms, ExclusionSpans(t), t,
               FindTokens(t, 0), 1)

\* the list check_text builds for `text` with the given dictionary state
Misspellings(sym, user_terms, ignored_terms, text) ==
    ScanNormalized(sym, user_terms, ignored_terms, NormalizeApostrophes(text))

---------------------------------------------------------------------------
(* TextBuffer (editor/buffer.py) and the TextArea document                 *)

\* text.split("\n")
RECURSIVE SplitLines(_)
SplitLines(t) ==
    IF \A i \in 1..Len(t) : t[i] # "\n" THEN << t >>
    ELSE LET k == SetMin({ i \in 1..Len(t) : t[i] = "\n" })
         IN << SubSeq(t, 1, k - 1) >> \o SplitLines(SubSeq(t, k + 1, Len(t)))

\* "\n".join(lines)
RECURSIVE JoinLines(_)
JoinLines(lines) ==
    IF Len(lines) = 1 THEN lines[1]
    ELSE lines[1] \o << "\n" >> \o JoinLines(Tail(lines))

\* TextBuffer.get_text() after TextBuffer.set_text(t)
GetText(t) == JoinLines(SplitLines(t))

\* the conversion loop not counting the newline between lines: a faulty
\* variant
RECURSIVE ConvertNoNewline(_, _, _, _)
ConvertNoNewline(lines, text_pos, line_num, current_pos) ==
    IF line_num > Len(lines)
    THEN << Len(lines) - 1, Len(lines[Len(lines)]) >>
    ELSE IF text_pos <= current_pos + Len(lines[line_num])
    THEN << line_num - 1, text_pos - current_pos >>
    ELSE ConvertNoNewline(lines, text_pos, line_num + 1,
                          current_pos + Len(lines[line_num]))

\* the loop of TextBuffer.convert_text_position_to_cursor
RECURSIVE ConvertLoop(_, _, _, _)
ConvertLoop(lines, text_pos, line_num, current_pos) ==
    IF line_num > Len(lines)
    THEN << Len(lines) - 1, Len(lines[Len(lines)]) >>
    ELSE LET end == current_pos + Len(lines[line_num])
         IN IF text_pos <= end
            THEN << line_num - 1, text_pos - current_pos >>
            ELSE ConvertLoop(lines, text_pos, line_num + 1, end + 1)

ConvertTextPositionToCursor(t, text_pos) ==
    ConvertLoop(SplitLines(t), text_pos, 1, 0)

\* offset of a (row, col) location in the TextArea document
RECURSIVE LocationOffset(_, _, _)
LocationOffset(lines, row, col) ==
    IF row = 0 THEN col
    ELSE Len(lines[1]) + 1 + LocationOffset(Tail(lines), row - 1, col)

\* TextView.replace_range(start, end, insert) -> TextArea.replace
ReplaceRange(t, start, end, insert) ==
    LET a == LocationOffset(SplitLines(t), start[1], start[2])
        b == LocationOffset(SplitLines(t), end[1], end[2])
    IN Slice(t, 0, a) \o insert \o Slice(t, b, Len(t))

---------------------------------------------------------------------------
(* Inputs                                                                  *)

\* the frequency dictionary the index is built from
BaseDictionary == (<< "t","h","e" >> :> 3) @@ (<< "h","e" >> :> 2)

\* documents opened in the editor: three misspelled words on two lines; a
\* correct word, a blank line and one misspelled word; one correct word
InitialTexts ==
    { << "t","e","\n","e","h"," ","H","t" >>,
      << "t","h","e","\n","\n","t","e" >>,
      << "t","h","e" >> }

InitialUserFiles == { << >> }

TypedChars == { "e" }

\* Ctrl+1..5 / Alt+1..5 select suggestion index 0..4
SuggestionKeys == 0..4

LoadOutcomes == { "ok", "fallback", "fail" }

---------------------------------------------------------------------------
(* State                                                                   *)

VARIABLES
    text,               \* TextArea.text, mirrored by TextBuffer._lines
    keys,               \* number of key events so far (bounded by MaxKeys)
    cursor_location,    \* TextArea.cursor_location, (row, col)
    spellcheck_active,  \* MarkdownEditor._spellcheck_active
    spellchecker,       \* MarkdownEditor.spellchecker: engine id, 0 = None
    status_bar,         \* EditorStatusBar fields
    svc,                \* SpellCheckerService fields
    workers,            \* the _spell_worker tasks
    misspelled_words,   \* MarkdownSpellchecker.misspelled_words
    current_index,      \* MarkdownSpellchecker.current_index
    user_terms,         \* MarkdownSpellchecker.user_terms
    ignored_terms,      \* MarkdownSpellchecker.ignored_terms
    symspell,           \* SymSpell._words: term -> count
    user_file,          \* lines of user_dictionary.txt
    scanned_text,       \* history: argument of the check_text that last filled the list
    engines_created,    \* history: MarkdownSpellchecker instances constructed
    loads_started,      \* history: _create_spellchecker jobs submitted
    loads_failed,       \* history: loads that ended with no engine
    received,           \* history: engine ids returned by get_spellchecker
    crashed,            \* an exception escaped a key handler
    last                \* history: the operation that produced this state

vars == << text, keys, cursor_location, spellcheck_active, spellchecker,
           status_bar, svc, workers, misspelled_words, current_index,
           user_terms, ignored_terms, symspell, user_file, scanned_text,
           engines_created, loads_started, loads_failed, received, crashed,
           last >>

editorVars == << text, cursor_location, spellcheck_active, status_bar >>
engineVars == << misspelled_words, current_index, user_terms, ignored_terms,
                 symspell, user_file, scanned_text >>
serviceVars == << svc, engines_created, loads_started, loads_failed, received >>

Workers == 1..MaxWorkers

NoWorker == [pc |-> "free", text |-> << >>, ret |-> "none", overlap |-> FALSE]

\* op: the operation; key, cap: the suggestion chosen by an accept (key is
\* the offset converted, for a position conversion); w: the
\* worker task that took the step (0: the UI thread); word, ok: the argument
\* of an add_to_dictionary call and whether its file write succeeded
NoLast == [op |-> "init", key |-> -1, cap |-> FALSE, w |-> 0,
           word |-> << >>, ok |-> TRUE, thread |-> "none"]

EmptyIndex == [w \in {} |-> 0]

Init ==
    /\ text \in InitialTexts
    /\ keys = 0
    /\ cursor_location = << 0, 0 >>
    /\ spellcheck_active = FALSE
    /\ spellchecker = 0
    /\ status_bar = [spellcheck_mode |-> FALSE, loading |-> FALSE,
                     current_word |-> << >>, suggestions |-> << >>,
                     progress |-> << 0, 0 >>]
    /\ svc = [spellchecker |-> 0, loading |-> FALSE, load_event |-> "None"]
    /\ workers = [w \in Workers |-> NoWorker]
    /\ misspelled_words = << >>
    /\ current_index = -1
    /\ user_terms = {}
    /\ ignored_terms = {}
    /\ symspell = EmptyIndex
    /\ user_file \in InitialUserFiles
    /\ scanned_text = << >>
    /\ engines_created = 0
    /\ loads_started = 0
    /\ loads_failed = 0
    /\ received = {}
    /\ crashed = FALSE
    /\ last = NoLast

---------------------------------------------------------------------------
(* EditorStatusBar (status_bar.py)                                         *)

EnterSpellcheckMode(sb) ==
    [sb EXCEPT !.spellcheck_mode = TRUE, !.loading = TRUE]

ExitSpellcheckMode(sb) ==
    [sb EXCEPT !.spellcheck_mode = FALSE, !.current_word = << >>,
               !.suggestions = << >>, !.progress = << 0, 0 >>]

SetSpellcheckInfo(sb, word, suggestions, progress) ==
    [sb EXCEPT !.loading = FALSE, !.current_word = word,
               !.suggestions = suggestions, !.progress = progress]

---------------------------------------------------------------------------
(* MarkdownSpellchecker cursor API                                         *)

\* get_current_word(): a sequence holding the entry, empty for None
GetCurrentWord(list, idx) ==
    IF 0 <= idx /\ idx < Len(list) THEN << list[idx + 1] >> ELSE << >>

\* next_word() without the empty-list guard: a faulty variant
NextWordUnguarded(list, idx) ==
    IF list = << >> THEN 0 ELSE (idx + 1) % Len(list)

\* current_index after next_word()
NextWordIndex(list, idx) ==
    IF list = << >> THEN idx ELSE (idx + 1) % Len(list)

\* previous_word() without the wraparound: a faulty variant
PreviousNoWrap(list, idx) ==
    IF list = << >> THEN idx ELSE idx - 1

\* current_index after previous_word()
PreviousWordIndex(list, idx) ==
    IF list = << >> THEN idx ELSE (idx - 1) % Len(list)

\* the value next_word() returns, empty for None
NextWordReturn(list, idx) ==
    IF list = << >> THEN << >>
    ELSE GetCurrentWord(list, NextWordIndex(list, idx))

\* the value previous_word() returns, empty for None
PreviousWordReturn(list, idx) ==
    IF list = << >> THEN << >>
    ELSE GetCurrentWord(list, PreviousWordIndex(list, idx))

\* a scan that appends to the old list: a faulty variant
KeepList(old) == old

\* self.misspelled_words = [] at the start of a scan: a new list object
\* that holds nothing of the old one
FreshList(old) == << >>

\* the user_terms set rebuilt from the file at the start of check_text
ReloadUserTerms(file) == { Lower(file[i]) : i \in 1..Len(file) }

\* current_index = 0 if self.misspelled_words else -1
ResetIndex(list) == IF list # << >> THEN 0 ELSE -1

\* MarkdownSpellchecker.__init__: index with the user dictionary loaded
ConstructIndex(file) == CreateEntries(BaseDictionary, ReloadUserTerms(file))

---------------------------------------------------------------------------
(* update_spellcheck_display (editor/spellcheck.py)                        *)

\* misspelled[idx] raises IndexError outside -len..len-1
DisplayRaises(list, idx) ==
    list # << >> /\ (idx < 0 - Len(list) \/ idx >= Len(list))

\* misspelled[idx] with Python's negative indexing
PyItem(list, idx) == IF idx < 0 THEN list[Len(list) + idx + 1] ELSE list[idx + 1]

\* EditorStatusBar.render: the rows of the table, self.suggestions[:5]
ShownSuggestions(suggestions) ==
    SubSeq(suggestions, 1, Min2(5, Len(suggestions)))

ShowEntry(sb, entry, idx, n) ==
    SetSpellcheckInfo(sb, entry.word,
                      [i \in 1..Len(entry.sugg) |-> entry.sugg[i].term],
                      << idx + 1, n >>)

DisplayStatus(sb, list, idx) ==
    IF list # << >>
    THEN ShowEntry(sb, PyItem(list, idx), idx, Len(list))
    ELSE SetSpellcheckInfo(sb, << >>, << >>, << 0, 0 >>)

DisplayCursor(cur, list, idx, t) ==
    IF list # << >>
    THEN ConvertTextPositionToCursor(t, PyItem(list, idx).pos)
    ELSE cur

---------------------------------------------------------------------------
(* Background worker: start_spellcheck / _spell_worker and the service     *)

FreeSlots == { w \in Workers : workers[w].pc = "free" }

\* a list object that is replaced keeps its contents for whoever holds it
FreezeAliases(ws, list) ==
    [w \in Workers |->
        IF ws[w].ret = "alias"
        THEN [ws[w] EXCEPT !.ret = IF list # << >> THEN "nonempty" ELSE "empty"]
        ELSE ws[w]]

\* executor scans that another check_text call has run into
MarkOverlap(ws) ==
    [w \in Workers |->
        IF ws[w].pc = "scanning" THEN [ws[w] EXCEPT !.overlap = TRUE] ELSE ws[w]]

\* loop.run_in_executor(None, editor.spellchecker.check_text, editor.text)
Dispatch(ws, w) ==
    [ws EXCEPT ![w] = [pc |-> "scan_queued", text |-> GetText(text),
                       ret |-> "none", overlap |-> FALSE]]

\* start_spellcheck: mark active, enter the status bar mode, create the task
StartSpellcheck ==
    /\ FreeSlots # {}
    /\ spellcheck_active' = TRUE
    /\ status_bar' = EnterSpellcheckMode(status_bar)
    /\ workers' = [workers EXCEPT ![SetMin(FreeSlots)] =
                      [NoWorker EXCEPT !.pc = "start"]]

\* exit_spellcheck
ExitSpellcheck ==
    /\ spellcheck_active' = FALSE
    /\ status_bar' = ExitSpellcheckMode(status_bar)

\* get_spellchecker, line 37: an engine is cached
HasEngine(s) == s.spellchecker # 0

\* get_spellchecker without the _loading test: a faulty variant
NeverLoading(s) == FALSE

\* get_spellchecker, line 41: a load is in flight
IsLoading(s) == s.loading

\* _spell_worker up to its first suspension: get_spellchecker() as far as it
\* runs without awaiting, then the executor submission
WorkerRun(w) ==
    /\ ~crashed
    /\ workers[w].pc = "start"
    /\ last' = [NoLast EXCEPT !.op = "worker_run", !.w = w]
    /\ UNCHANGED << editorVars, keys, engineVars, engines_created, loads_failed,
                    crashed >>
    /\ IF spellchecker # 0
       THEN /\ workers' = Dispatch(workers, w)
            /\ UNCHANGED << spellchecker, svc, loads_started, received >>
       ELSE IF HasEngine(svc)
       THEN \* get_spellchecker returns the cached engine
            /\ spellchecker' = svc.spellchecker
            /\ received' = received \cup { svc.spellchecker }
            /\ workers' = Dispatch(workers, w)
            /\ UNCHANGED << svc, loads_started >>
       ELSE IF IsLoading(svc)
       THEN IF svc.load_event # "None"
            THEN \* await self._load_event.wait()
                 /\ workers' = [workers EXCEPT ![w].pc = "wait_event"]
                 /\ UNCHANGED << spellchecker, svc, loads_started, received >>
            ELSE \* returns None; check_text on None ends the task
                 /\ workers' = [workers EXCEPT ![w] = NoWorker]
                 /\ UNCHANGED << spellchecker, svc, loads_started, received >>
       ELSE \* start loading
            /\ loads_started < MaxLoads
            /\ svc' = [svc EXCEPT !.loading = TRUE, !.load_event = "unset"]
            /\ loads_started' = loads_started + 1
            /\ workers' = [workers EXCEPT ![w].pc = "await_load"]
            /\ UNCHANGED << spellchecker, received >>

\* self._load_event.set(): every task waiting on the event becomes runnable
WakeWaiters(ws) ==
    [w \in Workers |->
        IF ws[w].pc = "wait_event" THEN [ws[w] EXCEPT !.pc = "woken"] ELSE ws[w]]

\* the thread on which the last MarkdownSpellchecker constructor call of the
\* load ran: _create_spellchecker is handed to run_in_executor (lines 59-62),
\* the fallback is constructed in the coroutine itself (lines 70-73)
ConstructionThread(outcome) ==
    IF outcome = "ok" THEN "executor" ELSE "event_loop"

\* the executor job of get_spellchecker ends and the loading caller resumes:
\*   "ok"        _create_spellchecker returned an engine
\*   "fallback"  it raised, the fallback constructor succeeded
\*   "fail"      both raised; the exception leaves get_spellchecker
LoadComplete(w, outcome) ==
    /\ ~crashed
    /\ workers[w].pc = "await_load"
    /\ last' = [NoLast EXCEPT !.op = "load_complete", !.w = w,
                              !.thread = ConstructionThread(outcome)]
    /\ UNCHANGED << editorVars, keys, loads_started, crashed, user_file,
                    scanned_text >>
    /\ IF outcome = "fail"
       THEN /\ svc' = [svc EXCEPT !.loading = FALSE, !.load_event = "set"]
            /\ loads_failed' = loads_failed + 1
            /\ workers' = [WakeWaiters(workers) EXCEPT ![w] = NoWorker]
            /\ UNCHANGED << spellchecker, engines_created, received,
                            misspelled_words, current_index, user_terms,
                            ignored_terms, symspell >>
       ELSE /\ engines_created' = engines_created + 1
            /\ svc' = [spellchecker |-> engines_created + 1,
                       loading |-> FALSE, load_event |-> "set"]
            /\ spellchecker' = engines_created + 1
            /\ received' = received \cup { engines_created + 1 }
            \* MarkdownSpellchecker.__init__
            /\ user_terms' = ReloadUserTerms(user_file)
            /\ ignored_terms' = {}
            /\ symspell' = ConstructIndex(user_file)
            /\ misspelled_words' = << >>
            /\ current_index' = -1
            /\ workers' = Dispatch(WakeWaiters(workers), w)
            /\ UNCHANGED loads_failed

\* a caller that waited on the load event resumes with self._spellchecker
WaiterResume(w) ==
    /\ ~crashed
    /\ workers[w].pc = "woken"
    /\ last' = [NoLast EXCEPT !.op = "waiter_resume", !.w = w]
    /\ spellchecker' = svc.spellchecker
    /\ received' = IF svc.spellchecker # 0
                   THEN received \cup { svc.spellchecker } ELSE received
    /\ workers' = IF svc.spellchecker # 0
                  THEN Dispatch(workers, w)
                  ELSE [workers EXCEPT ![w] = NoWorker]
    /\ UNCHANGED << editorVars, keys, engineVars, svc, engines_created,
                    loads_started, loads_failed, crashed >>

\* check_text on the executor thread, lines 158-173: reload the user
\* dictionary, then self.misspelled_words = []
ExecBegin(w) ==
    /\ ~crashed
    /\ workers[w].pc = "scan_queued"
    /\ user_terms' = ReloadUserTerms(user_file)
    /\ symspell' = CreateEntries(symspell, ReloadUserTerms(user_file))
    /\ misspelled_words' = FreshList(misspelled_words)
    /\ workers' = [MarkOverlap(FreezeAliases(workers, misspelled_words)) EXCEPT
                      ![w].pc = "scanning",
                      ![w].overlap = \E v \in Workers \ {w} :
                                        workers[v].pc = "scanning"]
    /\ last' = [NoLast EXCEPT !.op = "check_text_begin", !.w = w]
    /\ UNCHANGED << editorVars, keys, spellchecker, serviceVars, current_index,
                    ignored_terms, user_file, scanned_text, crashed >>

\* the list after the scan appended its entries to self.misspelled_words
Appended(list, found) == list \o found

\* check_text lines 173-229 run without interruption: the list it returns
Scanned(old, found) == Appended(FreshList(old), found)

\* check_text on the executor thread, lines 175-232: append the entries to
\* self.misspelled_words, set current_index, return the list
ExecFinish(w) ==
    /\ ~crashed
    /\ workers[w].pc = "scanning"
    /\ misspelled_words' =
          Appended(misspelled_words,
                   Misspellings(symspell, user_terms, ignored_terms, workers[w].text))
    /\ current_index' = ResetIndex(misspelled_words')
    /\ scanned_text' = workers[w].text
    /\ workers' = [MarkOverlap(workers) EXCEPT
                      ![w].pc = "scanned", ![w].ret = "alias",
                      ![w].overlap = workers[w].overlap]
    /\ last' = [NoLast EXCEPT !.op = "check_text", !.w = w]
    /\ UNCHANGED << editorVars, keys, spellchecker, serviceVars, user_terms,
                    ignored_terms, symspell, user_file, crashed >>

\* `if misspelled:` on the list object the executor returned
ResultTruthy(wk, list) ==
    IF wk.ret = "alias" THEN list # << >> ELSE wk.ret = "nonempty"

\* lines 36-38 with the index the worker leaves
ApplyResult(w, idx) ==
    /\ current_index' = idx
    /\ IF DisplayRaises(misspelled_words, idx)
       THEN UNCHANGED << status_bar, cursor_location >>
       ELSE /\ status_bar' = DisplayStatus(status_bar, misspelled_words, idx)
            /\ cursor_location' =
                  DisplayCursor(cursor_location, misspelled_words, idx, text)

\* _spell_worker after the executor returned: lines 33-38
WorkerResume(w) ==
    /\ ~crashed
    /\ workers[w].pc = "scanned"
    /\ ApplyResult(w, IF ResultTruthy(workers[w], misspelled_words)
                      THEN 0 ELSE current_index)
    /\ last' = [NoLast EXCEPT !.op = "worker_apply", !.w = w]
    /\ workers' = [workers EXCEPT ![w] = NoWorker]
    /\ UNCHANGED << text, keys, spellcheck_active, spellchecker,
                    serviceVars, misspelled_words, user_terms, ignored_terms,
                    symspell, user_file, scanned_text, crashed >>

---------------------------------------------------------------------------
(* Key handlers: handle_key_event (editor/keybindings.py)                  *)

\* a key event is delivered
KeyEvent ==
    /\ ~crashed
    /\ keys < MaxKeys
    /\ keys' = keys + 1

\* attribute access on editor.spellchecker while it is None
HandlerRaises ==
    /\ crashed' = TRUE
    /\ last' = [NoLast EXCEPT !.op = "raised"]
    /\ UNCHANGED << editorVars, spellchecker, serviceVars, workers, engineVars >>

\* F7 / Ctrl+F7, lines 225-231
KeyF7 ==
    /\ KeyEvent
    /\ IF ~spellcheck_active
       THEN StartSpellcheck
       ELSE ExitSpellcheck /\ UNCHANGED workers
    /\ last' = [NoLast EXCEPT !.op = "f7"]
    /\ UNCHANGED << text, cursor_location, spellchecker, serviceVars,
                    engineVars, crashed >>

\* Escape while active, lines 235-238
KeyEscape ==
    /\ KeyEvent
    /\ spellcheck_active
    /\ ExitSpellcheck
    /\ last' = [NoLast EXCEPT !.op = "escape"]
    /\ UNCHANGED << text, cursor_location, spellchecker, serviceVars,
                    workers, engineVars, crashed >>

\* update_spellcheck_display called from a key handler
Display(list, idx, t) ==
    IF DisplayRaises(list, idx)
    THEN /\ crashed' = TRUE
         /\ UNCHANGED << status_bar, cursor_location >>
    ELSE /\ status_bar' = DisplayStatus(status_bar, list, idx)
         /\ cursor_location' = DisplayCursor(cursor_location, list, idx, t)
         /\ UNCHANGED crashed

\* next_word() / previous_word() left current_index at idx; the display follows
Navigated(name, idx) ==
    /\ current_index' = idx
    /\ Display(misspelled_words, idx, text)
    /\ last' = [NoLast EXCEPT !.op = name]
    /\ UNCHANGED << text, spellcheck_active, spellchecker, serviceVars,
                    workers, misspelled_words, user_terms, ignored_terms,
                    symspell, user_file, scanned_text >>

\* F3, lines 239-243
KeyF3 ==
    /\ KeyEvent
    /\ spellcheck_active
    /\ IF spellchecker = 0 THEN HandlerRaises
       ELSE Navigated("next_word", NextWordIndex(misspelled_words, current_index))

\* Shift+F3, lines 244-248
KeyShiftF3 ==
    /\ KeyEvent
    /\ spellcheck_active
    /\ IF spellchecker = 0 THEN HandlerRaises
       ELSE Navigated("previous_word",
                      PreviousWordIndex(misspelled_words, current_index))

\* current_index the add / ignore handlers leave after their rescan:
\* min(prev_index, len - 1), then next_word()
RestoreAndAdvance(list, prev_index) ==
    NextWordIndex(list, Min2(prev_index, Len(list) - 1))

\* the suggestion handler restoring the index without the clamp: a faulty
\* variant
RestoreUnclamped(list, prev_index) == prev_index

\* current_index the suggestion handler leaves after its rescan
RestoreOrLast(list, prev_index) ==
    IF prev_index < Len(list) - 1 THEN prev_index ELSE Len(list) - 1

\* the end of a rescanning handler: check_text(editor.text) returned `list`
\* and the handler left current_index at idx; display, or exit when empty
Rescanned(t, terms, sym, ignored, file, list, idx, done) ==
    /\ text' = t
    /\ user_file' = file
    /\ user_terms' = terms
    /\ ignored_terms' = ignored
    /\ symspell' = sym
    /\ misspelled_words' = list
    /\ current_index' = idx
    /\ scanned_text' = GetText(t)
    /\ workers' = MarkOverlap(FreezeAliases(workers, misspelled_words))
    /\ IF list # << >>
       THEN /\ Display(list, idx, t)
            /\ UNCHANGED spellcheck_active
       ELSE /\ ExitSpellcheck
            /\ UNCHANGED << cursor_location, crashed >>
    /\ last' = done
    /\ UNCHANGED << spellchecker, serviceVars >>

\* the index a handler sets after its rescan: "advance" in the add and ignore
\* handlers, "stay" in the suggestion handler
Placed(place, list, prev_index) ==
    IF place = "advance"
    THEN RestoreAndAdvance(list, prev_index)
    ELSE RestoreOrLast(list, prev_index)

\* check_text line 231, then the handler's own positioning of the cursor
Reposition(t, terms, sym, ignored, file, list, place, done) ==
    Rescanned(t, terms, sym, ignored, file, list,
              IF list # << >> THEN Placed(place, list, current_index) ELSE -1,
              done)

\* check_text lines 173-229 on the reloaded index
Scan(t, terms, sym, ignored, file, place, done) ==
    Reposition(t, terms, sym, ignored, file,
               Scanned(misspelled_words,
                       Misspellings(sym, terms, ignored, GetText(t))),
               place, done)

\* check_text lines 158-171: the user terms re-read and re-entered
Reload(t, terms, sym, ignored, file, place, done) ==
    Scan(t, terms, CreateEntries(sym, terms), ignored, file, place, done)

\* check_text(editor.text) called by a key handler on the UI thread, and
\* what the handler does with the result
Rescan(t, sym, ignored, file, place, done) ==
    Reload(t, ReloadUserTerms(file), sym, ignored, file, place, done)

\* a handler that found no current word (or no such suggestion): event.stop()
NothingToDo(name) ==
    /\ last' = [NoLast EXCEPT !.op = name]
    /\ UNCHANGED << editorVars, spellchecker, serviceVars, workers, engineVars,
                    crashed >>

\* faulty variant: add_to_dictionary without the index insertion
AddToIndexNothing(sym, word) == sym

\* SimpleSpellchecker.add_to_dictionary: the index after the call
AddToIndex(sym, word) == CreateDictionaryEntry(sym, word, 1)

\* faulty variant: add_to_dictionary without the append to the file
AddToFileUnwritten(file, terms, word, write_ok) == file

\* MarkdownSpellchecker.add_to_dictionary: the file after the call
AddToFile(file, terms, word, write_ok) ==
    IF Lower(word) \notin terms /\ write_ok THEN Append(file, Lower(word)) ELSE file

\* Ctrl+A on the current entry, lines 252-264
AddCurrent(word, write_ok) ==
    Rescan(text, AddToIndex(symspell, word), ignored_terms \cup { word },
           AddToFile(user_file, user_terms, word, write_ok),
           "advance", [NoLast EXCEPT !.op = "ctrl_a"])

\* Ctrl+A, lines 249-266
KeyCtrlA(write_ok) ==
    /\ KeyEvent
    /\ spellcheck_active
    /\ IF spellchecker = 0 THEN HandlerRaises
       ELSE IF GetCurrentWord(misspelled_words, current_index) = << >>
       THEN NothingToDo("no_current")
       ELSE AddCurrent(Lower(misspelled_words[current_index + 1].word), write_ok)

\* Ctrl+I on the current entry, lines 272-282
IgnoreCurrent(word) ==
    Rescan(text, symspell, ignored_terms \cup { word }, user_file,
           "advance", [NoLast EXCEPT !.op = "ctrl_i"])

\* Ctrl+I, lines 268-284
KeyCtrlI ==
    /\ KeyEvent
    /\ spellcheck_active
    /\ IF spellchecker = 0 THEN HandlerRaises
       ELSE IF GetCurrentWord(misspelled_words, current_index) = << >>
       THEN NothingToDo("no_current")
       ELSE IgnoreCurrent(Lower(misspelled_words[current_index + 1].word))

\* suggestion[0].upper() + suggestion[1:]
Capitalize(w) == IF w = << >> THEN w ELSE << UpperChar(w[1]) >> \o Tail(w)

\* lines 311-313: the replacement text
Chosen(entry, k, capitalize) ==
    IF capitalize THEN Capitalize(entry.sugg[k + 1].term) ELSE entry.sugg[k + 1].term

\* the document after the suggestion handler's replace_range, lines 314-321
ApplySuggestion(t, entry, suggestion) ==
    ReplaceRange(t, ConvertTextPositionToCursor(t, entry.pos),
                    ConvertTextPositionToCursor(t, entry.pos + Len(entry.word)),
                    suggestion)

\* suggestion k accepted for the current entry, lines 311-335
Accept(entry, k, capitalize) ==
    Rescan(ApplySuggestion(text, entry, Chosen(entry, k, capitalize)),
           symspell, ignored_terms, user_file, "stay",
           [NoLast EXCEPT !.op = "accept", !.key = k, !.cap = capitalize])

\* Ctrl+1..5 and Alt+1..5, lines 298-337
KeySuggestion(k, capitalize) ==
    /\ KeyEvent
    /\ spellcheck_active
    /\ IF spellchecker = 0 THEN HandlerRaises
       ELSE IF GetCurrentWord(misspelled_words, current_index) = << >>
       THEN NothingToDo("no_current")
       ELSE IF k >= Len(misspelled_words[current_index + 1].sugg)
       THEN NothingToDo("no_suggestion")
       ELSE Accept(misspelled_words[current_index + 1], k, capitalize)

---------------------------------------------------------------------------
(* Typed input: on_text_area_changed syncs the buffer; no scan is started  *)

\* offsets at which the user types
EditOffsets(t) == { 0 }

\* a character inserted at offset pos
TypeChar(pos, c) ==
    /\ KeyEvent
    /\ text' = Slice(text, 0, pos) \o << c >> \o Slice(text, pos, Len(text))
    /\ cursor_location' = ConvertTextPositionToCursor(text', pos + 1)
    /\ last' = [NoLast EXCEPT !.op = "edit"]
    /\ UNCHANGED << spellcheck_active, status_bar, spellchecker,
                    serviceVars, workers, engineVars, crashed >>

\* the character at offset pos deleted
DeleteChar(pos) ==
    /\ KeyEvent
    /\ pos < Len(text)
    /\ text' = Slice(text, 0, pos) \o Slice(text, pos + 1, Len(text))
    /\ cursor_location' = ConvertTextPositionToCursor(text', pos)
    /\ last' = [NoLast EXCEPT !.op = "edit"]
    /\ UNCHANGED << spellcheck_active, status_bar, spellchecker,
                    serviceVars, workers, engineVars, crashed >>

---------------------------------------------------------------------------

Next ==
    \/ KeyF7
    \/ KeyEscape
    \/ KeyF3
    \/ KeyShiftF3
    \/ \E ok \in BOOLEAN : KeyCtrlA(ok)
    \/ KeyCtrlI
    \/ \E k \in SuggestionKeys, cap \in BOOLEAN : KeySuggestion(k, cap)
    \/ \E pos \in EditOffsets(text), c \in TypedChars : TypeChar(pos, c)
    \/ \E pos \in EditOffsets(text) : DeleteChar(pos)
    \/ \E w \in Workers : WorkerRun(w)
    \/ \E w \in Workers, o \in LoadOutcomes : LoadComplete(w, o)
    \/ \E w \in Workers : WaiterResume(w)
    \/ \E w \in Workers : ExecBegin(w)
    \/ \E w \in Workers : ExecFinish(w)
    \/ \E w \in Workers : WorkerResume(w)

Spec == Init /\ [][Next]_vars

---------------------------------------------------------------------------
(* Properties                                                              *)

\* the index is -1 exactly when the list is empty, and in range otherwise
IndexInRange ==
    IF misspelled_words = << >> THEN current_index = -1
    ELSE 0 <= current_index /\ current_index < Len(misspelled_words)

\* the operations that complete a check_text, a navigation step or one of
\* the three rescanning key handlers
ListedOps ==
    { "check_text", "next_word", "previous_word", "accept", "ctrl_a", "ctrl_i" }

RECURSIVE NextTimes(_, _, _)
NextTimes(list, idx, n) ==
    IF n = 0 THEN idx ELSE NextTimes(list, NextWordIndex(list, idx), n - 1)

\* C3: for the list of N >= 1 entries the engine holds and every in-range
\* index i, N next_word() calls return to i, next_word() from N-1 gives 0,
\* previous_word() from 0 gives N-1, and previous_word() after next_word()
\* restores i.
C3_CircularNavigation ==
    Len(misspelled_words) >= 1 =>
        /\ NextWordIndex(misspelled_words, Len(misspelled_words) - 1) = 0
        /\ PreviousWordIndex(misspelled_words, 0) = Len(misspelled_words) - 1
        /\ \A i \in 0..(Len(misspelled_words) - 1) :
              /\ NextTimes(misspelled_words, i, Len(misspelled_words)) = i
              /\ PreviousWordIndex(misspelled_words,
                                   NextWordIndex(misspelled_words, i)) = i

\* C3 witness: F3 wrapped from the last of three entries to the first
C3_Witness ==
    /\ last.op = "next_word"
    /\ Len(misspelled_words) = 3
    /\ current_index = 0

\* C4: with an empty list, next_word(), previous_word() and
\* get_current_word() return None, and the key handlers that call them
\* leave current_index and the list as they were.
C4_EmptyListNoOp ==
    [][ ( /\ misspelled_words = << >>
          /\ last'.op \in { "next_word", "previous_word", "no_current" } )
        => /\ NextWordReturn(misspelled_words, current_index) = << >>
           /\ PreviousWordReturn(misspelled_words, current_index) = << >>
           /\ GetCurrentWord(misspelled_words, current_index) = << >>
           /\ current_index' = current_index
           /\ misspelled_words' = misspelled_words ]_vars

\* C4 witness: F3 pressed after a scan of the document found nothing
C4_Witness ==
    /\ last.op = "next_word"
    /\ text # << >>
    /\ scanned_text = text
    /\ misspelled_words = << >>
    /\ current_index = -1

\* the index of the first entry of list that starts at or after offset p,
\* the last index when there is none, -1 for an empty list
LandingIndex(list, p) ==
    IF list = << >> THEN -1
    ELSE IF \E j \in 1..Len(list) : list[j].pos >= p
    THEN SetMin({ j \in 1..Len(list) : list[j].pos >= p }) - 1
    ELSE Len(list) - 1

\* C5: after an accept replaced the current entry, which started at offset
\* p, and rescanned, the cursor is on the first entry of the new list that
\* starts at or after p, on the last entry when there is none, and with an
\* empty new list current_index is -1 and spellcheck mode is exited.
C5_AcceptLanding ==
    [][ last'.op = "accept"
        => /\ current_index' =
                 LandingIndex(misspelled_words',
                              misspelled_words[current_index + 1].pos)
           /\ misspelled_words' = << >> =>
                 (~spellcheck_active' /\ ~status_bar'.spellcheck_mode) ]_vars

\* the list was filled by a scan of the document as it is now, and no scan
\* is running
ListIsFresh ==
    /\ scanned_text = GetText(text)
    /\ \A w \in Workers : workers[w].pc # "scanning"

\* C5 on a fresh list: the statement of C5 for an accept whose list came
\* from a single scan of the document as it was when the key was pressed.
C5_FreshAcceptLanding ==
    [][ ( /\ last'.op = "accept"
          /\ ListIsFresh
          /\ misspelled_words =
                Misspellings(symspell, user_terms, ignored_terms, text) )
        => /\ current_index' =
                 LandingIndex(misspelled_words',
                              misspelled_words[current_index + 1].pos)
           /\ misspelled_words' = << >> =>
                 (~spellcheck_active' /\ ~status_bar'.spellcheck_mode) ]_vars

\* C5 witness: "e" typed before "the\n\nte" after its scan, then Ctrl+1:
\* the cursor is on the entry at offset 0, before the replacement at 5
C5_Witness ==
    /\ last.op = "accept"
    /\ text = << "e","t","h","e","\n","t","h","e","e" >>
    /\ Len(misspelled_words) = 2
    /\ misspelled_words[2].pos = 5
    /\ current_index = 0

\* C6: after Ctrl+A or Ctrl+I rescanned, current_index is the index held
\* before the key, clamped to the new list: min(previous, new length - 1).
C6_AddIgnoreKeepsIndex ==
    [][ last'.op \in { "ctrl_a", "ctrl_i" }
        => current_index' =
              Min2(current_index, Len(misspelled_words') - 1) ]_vars

\* C6 witness: Ctrl+I on the first of three entries left two entries and
\* the cursor on the second of them
C6_Witness ==
    /\ last.op = "ctrl_i"
    /\ Len(misspelled_words) = 2
    /\ ignored_terms = { << "t","e" >> }
    /\ current_index = 1

\* C7: an accept of suggestion s for the current entry (w, suggestions, p)
\* changes the document d to d[0:p] + s + d[p+len(w):], s being the chosen
\* term with its first letter upper-cased for the Alt variant.
C7_AcceptReplacesSpan ==
    [][ last'.op = "accept"
        => text' =
              Slice(text, 0, misspelled_words[current_index + 1].pos)
              \o (IF last'.cap
                  THEN << UpperChar(Head(misspelled_words[current_index + 1]
                                           .sugg[last'.key + 1].term)) >>
                       \o Tail(misspelled_words[current_index + 1]
                                 .sugg[last'.key + 1].term)
                  ELSE misspelled_words[current_index + 1]
                          .sugg[last'.key + 1].term)
              \o Slice(text,
                       misspelled_words[current_index + 1].pos
                          + Len(misspelled_words[current_index + 1].word),
                       Len(text)) ]_vars

\* C7 witness: Alt+1 replaced "te" on the third line by "The"
C7_Witness ==
    /\ last.op = "accept"
    /\ last.cap
    /\ text = << "t","h","e","\n","\n","T","h","e" >>

\* C8: whenever an entry offset is used to move the caret (F3, Shift+F3) or
\* to replace a span (accept), the list holds the result of a scan of the
\* document as it is at that moment.
C8_RescanBeforeOffsetUse ==
    [][ ( /\ last'.op \in { "next_word", "previous_word", "accept" }
          /\ misspelled_words # << >> )
        => scanned_text = GetText(text) ]_vars

\* C8 witness: F3 moved the caret by a list scanned before the typed edit
C8_Witness ==
    /\ last.op = "next_word"
    /\ misspelled_words # << >>
    /\ scanned_text # text

\* C9: a worker whose scan was of a document text that is no longer the
\* editor's text when it resumes leaves the cursor, the status bar and the
\* caret as they are.
C9_StaleResultDiscarded ==
    [][ \A w \in Workers :
          ( /\ last'.op = "worker_apply" /\ last'.w = w
            /\ workers[w].text # GetText(text) )
          => /\ current_index' = current_index
             /\ status_bar' = status_bar
             /\ cursor_location' = cursor_location ]_vars

\* C9 witness: a worker applied its result after the document was edited
C9_Witness ==
    /\ last.op = "worker_apply"
    /\ scanned_text # text
    /\ status_bar.current_word # << >>

\* C10: at most one dictionary load is in flight, a new load starts only
\* after the previous one failed, a caller waits only while a load is in
\* flight, and every engine handed to a caller is the one engine created.
C10_SingleFlight ==
    /\ Cardinality({ w \in Workers : workers[w].pc = "await_load" }) <= 1
    /\ loads_started <= loads_failed + 1
    /\ engines_created <= 1
    /\ \A w \in Workers :
          workers[w].pc = "wait_event"
          => (svc.loading /\ \E v \in Workers : workers[v].pc = "await_load")
    /\ received \subseteq { svc.spellchecker } \ { 0 }
    /\ spellchecker \in { 0, svc.spellchecker }

\* C10 witness: a caller that waited for the load resumed with the engine
\* the loading caller created
C10_Witness ==
    /\ last.op = "waiter_resume"
    /\ loads_started = 1
    /\ spellchecker = 1
    /\ received = { 1 }

\* a check_text call is running on an executor thread: it has reset the list
\* and has not yet returned
ScanInFlight == \E w \in Workers : workers[w].pc = "scanning"

\* C11: the state an accept leaves, which is what every later key handler,
\* display update and background scan sees, holds the complete scan of the new
\* document with the cursor on an entry of it, and no background scan that
\* began before the accept is still rebuilding the same list.
C11_AcceptAtomic ==
    last.op = "accept" =>
        /\ misspelled_words =
              Misspellings(symspell, user_terms, ignored_terms, text)
        /\ IndexInRange
        /\ ~ScanInFlight

\* C11 witness: an accept returned while an executor scan of the document as
\* it was before the replacement is still appending to the engine's list
C11_Witness ==
    /\ last.op = "accept"
    /\ ScanInFlight
    /\ misspelled_words # << >>

\* the steps in which the UI thread writes engine state: check_text and
\* add_to_dictionary in the rescanning handlers, current_index in next_word,
\* previous_word and in the worker's `current_index = 0`
UiThreadWrites ==
    \/ last'.op \in { "accept", "ctrl_a", "ctrl_i" }
    \/ last'.op \in { "next_word", "previous_word" } /\ misspelled_words # << >>
    \/ /\ last'.op = "worker_apply"
       /\ ResultTruthy(workers[last'.w], misspelled_words)

\* C12: no step of the UI thread that writes engine state is taken while a
\* check_text is running on an executor thread, and no two executor threads
\* run check_text on the engine at once.
C12_NoConcurrentMutation ==
    [][ /\ UiThreadWrites => ~ScanInFlight
        /\ Cardinality({ w \in Workers : workers[w].pc' = "scanning" }) <= 1
      ]_vars

\* C12 witness: Ctrl+A ran add_to_dictionary and check_text on the UI thread
\* while an executor scan was in progress
C12_Witness ==
    /\ last.op = "ctrl_a"
    /\ ScanInFlight

---------------------------------------------------------------------------
(* The engine driven through its API: one MarkdownSpellchecker instance,   *)
(* check_text, add_to_dictionary, the host's ignored_terms.add and the     *)
(* construction of a new instance over the same files                      *)

\* documents passed to check_text: the word "te" and its case variants, a
\* token with a U+2019 inside, a one-letter token, and two tokens on one line
EngineDocuments ==
    { << "t","e" >>, << "T","e" >>, << "t","E" >>, << "T","E" >>,
      << "t","U+2019","e" >>, << "e" >>, << "e","e"," ","t","e" >> }

\* words passed to add_to_dictionary
EngineWords == { << "t","e" >>, << "T","e" >> }

\* terms the host adds to ignored_terms (lower-cased entry words)
EngineIgnoreTerms == { << "t","e" >> }

\* the editor, the service and the workers play no part
EngineFrame ==
    UNCHANGED << text, keys, cursor_location, spellcheck_active, spellchecker,
                 status_bar, serviceVars, workers, crashed >>

\* a constructed instance, held by no editor
EngineInit ==
    /\ text = << >>
    /\ keys = 0
    /\ cursor_location = << 0, 0 >>
    /\ spellcheck_active = FALSE
    /\ spellchecker = 0
    /\ status_bar = [spellcheck_mode |-> FALSE, loading |-> FALSE,
                     current_word |-> << >>, suggestions |-> << >>,
                     progress |-> << 0, 0 >>]
    /\ svc = [spellchecker |-> 0, loading |-> FALSE, load_event |-> "None"]
    /\ workers = [w \in Workers |-> NoWorker]
    /\ user_file \in InitialUserFiles
    /\ user_terms = ReloadUserTerms(user_file)
    /\ ignored_terms = {}
    /\ symspell = ConstructIndex(user_file)
    /\ misspelled_words = << >>
    /\ current_index = -1
    /\ scanned_text = << >>
    /\ engines_created = 1
    /\ loads_started = 0
    /\ loads_failed = 0
    /\ received = {}
    /\ crashed = FALSE
    /\ last = NoLast

\* check_text(d), lines 158-232, called with nothing running beside it
EngineCheckText(d) ==
    /\ user_terms' = ReloadUserTerms(user_file)
    /\ symspell' = CreateEntries(symspell, ReloadUserTerms(user_file))
    /\ misspelled_words' =
          Scanned(misspelled_words,
                  Misspellings(symspell', user_terms', ignored_terms, d))
    /\ current_index' = ResetIndex(misspelled_words')
    /\ scanned_text' = d
    /\ last' = [NoLast EXCEPT !.op = "check_text"]
    /\ UNCHANGED << ignored_terms, user_file, engines_created >>
    /\ EngineFrame

\* MarkdownSpellchecker.add_to_dictionary(word), lines 234-250
EngineAddToDictionary(word, write_ok) ==
    /\ symspell' = AddToIndex(symspell, word)
    /\ user_terms' = user_terms \cup { Lower(word) }
    /\ user_file' = AddToFile(user_file, user_terms, word, write_ok)
    /\ last' = [NoLast EXCEPT !.op = "add_to_dictionary", !.word = word,
                              !.ok = write_ok]
    /\ UNCHANGED << misspelled_words, current_index, ignored_terms,
                    scanned_text, engines_created >>
    /\ EngineFrame

\* editor.spellchecker.ignored_terms.add(term), keybindings.py line 273
EngineIgnore(term) ==
    /\ ignored_terms' = ignored_terms \cup { term }
    /\ last' = [NoLast EXCEPT !.op = "ignore", !.word = term]
    /\ UNCHANGED << misspelled_words, current_index, user_terms, symspell,
                    user_file, scanned_text, engines_created >>
    /\ EngineFrame

\* a new MarkdownSpellchecker over the same files, lines 88-146
EngineRestart ==
    /\ user_terms' = ReloadUserTerms(user_file)
    /\ ignored_terms' = {}
    /\ symspell' = ConstructIndex(user_file)
    /\ misspelled_words' = << >>
    /\ current_index' = -1
    /\ scanned_text' = << >>
    /\ engines_created' = 1
    /\ last' = [NoLast EXCEPT !.op = "restart"]
    /\ UNCHANGED user_file
    /\ EngineFrame

EngineNext ==
    \/ \E d \in EngineDocuments : EngineCheckText(d)
    \/ \E w \in EngineWords, ok \in BOOLEAN : EngineAddToDictionary(w, ok)
    \/ \E term \in EngineIgnoreTerms : EngineIgnore(term)
    \/ EngineRestart

EngineSpec == EngineInit /\ [][EngineNext]_vars

---------------------------------------------------------------------------
(* Properties of the engine API                                            *)

\* C13 as stated: for every entry check_text returned, the characters of the
\* document passed at [pos, pos + len(word)) are the entry's word.
C13_OffsetEquality ==
    last.op = "check_text" =>
        \A i \in 1..Len(misspelled_words) :
            Slice(scanned_text, misspelled_words[i].pos,
                  misspelled_words[i].pos + Len(misspelled_words[i].word))
            = misspelled_words[i].word

\* C13 amended: for every entry check_text returned, the characters of the
\* document passed at [pos, pos + len(word)) are the entry's word once U+2019
\* and U+2018 in them are replaced by the ASCII apostrophe; the span has the
\* length of the word.
C13_OffsetValidity ==
    last.op = "check_text" =>
        \A i \in 1..Len(misspelled_words) :
            /\ misspelled_words[i].pos + Len(misspelled_words[i].word)
                  <= Len(scanned_text)
            /\ NormalizeApostrophes(
                  Slice(scanned_text, misspelled_words[i].pos,
                        misspelled_words[i].pos + Len(misspelled_words[i].word)))
               = misspelled_words[i].word

\* C13 witness: the scan of a document with U+2019 inside a token returned
\* the token with an ASCII apostrophe
C13_Witness ==
    /\ last.op = "check_text"
    /\ scanned_text = << "t","U+2019","e" >>
    /\ Len(misspelled_words) = 1
    /\ misspelled_words[1].word = << "t", "'", "e" >>
    /\ misspelled_words[1].pos = 0

\* C14: a check_text call that directly follows a check_text call of the
\* same document on the same instance, with no other call in between,
\* returns the list the first call returned: same words, offsets and
\* suggestions in the same order.
C14_ScanIdempotent ==
    [][ ( /\ last.op = "check_text"
          /\ last'.op = "check_text"
          /\ scanned_text' = scanned_text )
        => misspelled_words' = misspelled_words ]_vars

\* the words and offsets of a list, without the suggestions
WordsAndOffsets(list) ==
    [i \in 1..Len(list) |-> << list[i].word, list[i].pos >>]

\* C14 without the suggestions: the second of two such calls returns the
\* same words at the same offsets.
C14_SameWordsAndOffsets ==
    [][ ( /\ last.op = "check_text"
          /\ last'.op = "check_text"
          /\ scanned_text' = scanned_text )
        => WordsAndOffsets(misspelled_words')
           = WordsAndOffsets(misspelled_words) ]_vars

\* C14 witness: a scan of "e" in which the user term "te" has overtaken the
\* dictionary word "he" as the first suggestion
C14_Witness ==
    /\ last.op = "check_text"
    /\ scanned_text = << "e" >>
    /\ Len(misspelled_words) = 1
    /\ misspelled_words[1].sugg[1].term = << "t","e" >>
    /\ symspell[<< "t","e" >>] > symspell[<< "h","e" >>]

\* the lower-cased words this instance entered into its index beside the
\* frequency dictionary: add_to_dictionary inserts the word, the constructor
\* and check_text insert the terms of the user dictionary file; the index
\* never loses a term
AddedTerms == { Lower(w) : w \in DOMAIN symspell \ DOMAIN BaseDictionary }

\* C15: once add_to_dictionary(w) has returned on an instance, no check_text
\* on that instance returns an entry whose lower-cased word is w lower-cased.
C15_AddedNeverFlagged ==
    last.op = "check_text" =>
        \A i \in 1..Len(misspelled_words) :
            Lower(misspelled_words[i].word) \notin AddedTerms

\* C15 witness: a scan of "te" on an instance on which "Te" was added
\* returned an entry for "te"
C15_Witness ==
    /\ last.op = "check_text"
    /\ scanned_text = << "t","e" >>
    /\ << "T","e" >> \in DOMAIN symspell
    /\ Len(misspelled_words) = 1
    /\ misspelled_words[1].word = << "t","e" >>

\* what check_text(d) returns on an instance with index sym and ignore set
\* ignored over the user dictionary file: lines 158-232
CheckTextOf(sym, file, ignored, d) ==
    Misspellings(CreateEntries(sym, ReloadUserTerms(file)),
                 ReloadUserTerms(file), ignored, d)

\* some entry of the list has this lower-cased word
Flags(list, term) == \E i \in 1..Len(list) : Lower(list[i].word) = term

\* C16: ignoring a term leaves the user dictionary file as it was, and the
\* instance a restart constructs over the same files flags, in a document
\* made of the term, every term the old instance ignored and the file does
\* not hold; an add_to_dictionary whose append succeeded, on an instance
\* whose user terms are all in the file, leaves the lower-cased word in the
\* file, and the instance a restart constructs flags no token of any
\* document whose lower-cased form is a term of the file.
C16_IgnoreSessionOnlyAddPersists ==
    [][ /\ last'.op = "ignore" => user_file' = user_file
        /\ ( /\ last'.op = "add_to_dictionary"
             /\ last'.ok
             /\ user_terms \subseteq ReloadUserTerms(user_file) )
           => Lower(last'.word) \in ReloadUserTerms(user_file')
        /\ last'.op = "restart" =>
              /\ user_file' = user_file
              /\ \A t \in ignored_terms \ ReloadUserTerms(user_file) :
                    Flags(CheckTextOf(symspell', user_file', ignored_terms', t),
                          t)
              /\ \A d \in EngineDocuments :
                    \A t \in ReloadUserTerms(user_file) :
                       ~Flags(CheckTextOf(symspell', user_file',
                                          ignored_terms', d), t)
      ]_vars

\* C16 witness: a restart over a file that holds an added word; the new
\* instance's scan of a document with that word and another token flags the
\* other token only
C16_Witness ==
    /\ last.op = "restart"
    /\ ignored_terms = {}
    /\ user_file = << << "t","e" >> >>
    /\ ~Flags(CheckTextOf(symspell, user_file, ignored_terms,
                          << "e","e"," ","t","e" >>), << "t","e" >>)
    /\ Flags(CheckTextOf(symspell, user_file, ignored_terms,
                         << "e","e"," ","t","e" >>), << "e","e" >>)

\* C17: no call on an instance takes a term out of its ignored_terms (only
\* the construction of a new instance starts from the empty set), and every
\* check_text returns a list with no entry whose lower-cased word is in
\* ignored_terms.
C17_IgnoredStaysIgnored ==
    [][ /\ last'.op # "restart" => ignored_terms \subseteq ignored_terms'
        /\ last'.op = "check_text" =>
              \A t \in ignored_terms' : ~Flags(misspelled_words', t)
      ]_vars

\* C17 witness: a scan of a document with the ignored term, which neither
\* the index nor the user terms hold, returned only the other token
C17_Witness ==
    /\ last.op = "check_text"
    /\ ignored_terms = { << "t","e" >> }
    /\ user_terms = {}
    /\ DOMAIN symspell = DOMAIN BaseDictionary
    /\ scanned_text = << "e","e"," ","t","e" >>
    /\ Len(misspelled_words) = 1
    /\ misspelled_words[1].word = << "e","e" >>

\* the words add_to_dictionary entered into the index of this instance
\* whose lower-cased term the user dictionary file does not hold: the append
\* failed (or was skipped after an append that failed)
UnwrittenWords ==
    { w \in DOMAIN symspell \ DOMAIN BaseDictionary :
         Lower(w) \notin ReloadUserTerms(user_file) }

\* the list has an entry for exactly this word
FlagsWord(list, word) == \E i \in 1..Len(list) : list[i].word = word

\* C18: add_to_dictionary returns normally when the append fails (the step
\* is always enabled and ends in the caller's next state), the check_text
\* that follows it returns no entry for the word, and no later check_text on
\* the instance returns an entry for a word whose append failed.
C18_FailedWriteWordNotFlagged ==
    [][ /\ ( /\ last.op = "add_to_dictionary"
             /\ ~last.ok
             /\ last'.op = "check_text" )
           => ~FlagsWord(misspelled_words', last.word)
        /\ last'.op = "check_text" =>
              \A w \in UnwrittenWords' : ~FlagsWord(misspelled_words', w)
      ]_vars

\* C18 witness: after an add of "Te" whose append failed, a scan of "Te" on
\* the instance, with nothing ignored and no user terms, flags nothing
C18_Witness ==
    /\ last.op = "check_text"
    /\ user_file = << >>
    /\ user_terms = {}
    /\ ignored_terms = {}
    /\ << "T","e" >> \in DOMAIN symspell
    /\ scanned_text = << "T","e" >>
    /\ misspelled_words = << >>

---------------------------------------------------------------------------
(* Properties of the load path                                             *)

\* C19: no exception leaves get_spellchecker, a caller that returns from
\* get_spellchecker (the loading caller or one that waited on the load
\* event) holds an engine, and after a failed construction no key handler
\* raises.
C19_FailureDegrades ==
    /\ loads_failed = 0
    /\ last.op \in { "load_complete", "waiter_resume" } => spellchecker # 0
    /\ loads_failed > 0 => ~crashed

\* C19 witness: the construction and the fallback construction both raised,
\* the editor holds no engine, and a spellcheck key raised in its handler
C19_Witness ==
    /\ loads_failed > 0
    /\ spellchecker = 0
    /\ spellcheck_active
    /\ last.op = "raised"
    /\ crashed

\* C20: every MarkdownSpellchecker constructor call made by get_spellchecker
\* runs on an executor thread, whether _create_spellchecker returned or
\* raised.
C20_ConstructionOffLoop ==
    last.op = "load_complete" => last.thread = "executor"

\* C20 witness: _create_spellchecker raised and the caller received the
\* fallback engine, constructed on the event loop
C20_Witness ==
    /\ last.op = "load_complete"
    /\ last.thread = "event_loop"
    /\ spellchecker # 0
    /\ svc.spellchecker = spellchecker

---------------------------------------------------------------------------
(* check_text as a function of the document, the index and the user file   *)
(* (services/spellcheck.py): one instance scans one document while the     *)
(* user dictionary file is edited outside the engine                       *)

\* documents scanned: plain and capitalised tokens, a token far from every
\* term, URLs, a Markdown link, an email address, numbers and mixed
\* alphanumerics, all-uppercase tokens, possessives and contractions
ScanDocuments ==
    { << "t","e" >>,
      << "T","e" >>,
      << "t","e"," ","t","e" >>,
      << "t","e"," ","t","h","e"," ","t","e","e" >>,
      << "z","z","z","z","z" >>,
      << "T","e","h" >>,
      << "T","h","e" >>,
      << "T","q","q" >>,
      << "h","t","t","p",":","/","/","t","e"," ","t","e" >>,
      << "w","w","w",".","t","e"," ","t","e" >>,
      << "[","t","e","]","(","t","e",")"," ","t","e" >>,
      << "h","e","@","t","e",".","h","e" >>,
      << "5","5" >>,
      << "4","t","h" >>,
      << "t","e","5" >>,
      << "T","E" >>,
      << "T","E","H" >>,
      << "T","H","E" >>,
      << "h","e","'","d" >>,
      << "h","e","'","s" >>,
      << "t","e","'","t" >> }

\* the frequency dictionary loaded by the constructor
ScanDictionary ==
    (<< "t","h","e" >> :> 3) @@ (<< "h","e" >> :> 2) @@ (<< "s","h","e" >> :> 2)
    @@ (<< "h","e","r" >> :> 1) @@ (<< "h","e","n" >> :> 1)
    @@ (<< "t","h","e","m" >> :> 1)

\* contents of user_dictionary.txt: empty, or the one term "te"
ScanUserFiles == { << >>, << << "t","e" >> >> }

\* MarkdownSpellchecker.__init__ over the file, lines 88-146
ScanInit ==
    /\ text \in ScanDocuments
    /\ keys = 0
    /\ cursor_location = << 0, 0 >>
    /\ spellcheck_active = FALSE
    /\ spellchecker = 0
    /\ status_bar = [spellcheck_mode |-> FALSE, loading |-> FALSE,
                     current_word |-> << >>, suggestions |-> << >>,
                     progress |-> << 0, 0 >>]
    /\ svc = [spellchecker |-> 0, loading |-> FALSE, load_event |-> "None"]
    /\ workers = [w \in Workers |-> NoWorker]
    /\ user_file \in ScanUserFiles
    /\ user_terms = ReloadUserTerms(user_file)
    /\ ignored_terms = {}
    /\ symspell = CreateEntries(ScanDictionary, ReloadUserTerms(user_file))
    /\ misspelled_words = << >>
    /\ current_index = -1
    /\ scanned_text = << >>
    /\ engines_created = 1
    /\ loads_started = 0
    /\ loads_failed = 0
    /\ received = {}
    /\ crashed = FALSE
    /\ last = NoLast

\* check_text(editor document), lines 148-232
ScanCheckText ==
    /\ text \in ScanDocuments
    /\ EngineCheckText(text)

\* the user dictionary file is rewritten outside the engine
ScanEditFile(file) ==
    /\ file # user_file
    /\ user_file' = file
    /\ last' = [NoLast EXCEPT !.op = "edit_file"]
    /\ UNCHANGED << misspelled_words, current_index, user_terms,
                    ignored_terms, symspell, scanned_text, engines_created >>
    /\ EngineFrame

ScanNext ==
    \/ ScanCheckText
    \/ \E file \in ScanUserFiles : ScanEditFile(file)

ScanSpec == ScanInit /\ [][ScanNext]_vars

---------------------------------------------------------------------------
(* Properties of check_text                                                *)

\* the tokens of the normalised document that check_text visits
TokensOf(d) == FindTokens(NormalizeApostrophes(d), 0)

\* the token at [tok.start, tok.end) of the normalised document
TokenWord(d, tok) == Slice(NormalizeApostrophes(d), tok.start, tok.end)

\* the list has an entry at this offset
ReportedAt(list, pos) == \E i \in 1..Len(list) : list[i].pos = pos

\* C21: at every check_text the file as it is then decides: a token whose
\* lower-cased form is a term of the file is not reported, and a token
\* "te", which the frequency dictionary does not hold, is reported when
\* the file does not hold it.
C21_FileEditsTakeEffect ==
    last.op = "check_text" =>
        \A k \in 1..Len(TokensOf(scanned_text)) :
            /\ Lower(TokenWord(scanned_text, TokensOf(scanned_text)[k]))
                  \in ReloadUserTerms(user_file)
               => ~ReportedAt(misspelled_words, TokensOf(scanned_text)[k].start)
            /\ ( /\ TokenWord(scanned_text, TokensOf(scanned_text)[k])
                      = << "t","e" >>
                 /\ ~InSpans(ExclusionSpans(NormalizeApostrophes(scanned_text)),
                             TokensOf(scanned_text)[k].start)
                 /\ << "t","e" >> \notin ReloadUserTerms(user_file) )
               => ReportedAt(misspelled_words, TokensOf(scanned_text)[k].start)

\* C21 for terms added to the file: a token whose lower-cased form is a
\* term of the file at the time of the scan is not reported.
C21_AddedTermNotFlagged ==
    last.op = "check_text" =>
        \A k \in 1..Len(TokensOf(scanned_text)) :
            Lower(TokenWord(scanned_text, TokensOf(scanned_text)[k]))
               \in ReloadUserTerms(user_file)
            => ~ReportedAt(misspelled_words, TokensOf(scanned_text)[k].start)

\* C21 witness: "te" was taken out of the file, the instance scanned "te"
\* afterwards and reported nothing, the index still holding the term
C21_Witness ==
    /\ last.op = "check_text"
    /\ user_file = << >>
    /\ user_terms = {}
    /\ << "t","e" >> \in DOMAIN symspell
    /\ scanned_text = << "t","e" >>
    /\ misspelled_words = << >>

\* token k of the scanned document is caught by a `continue` test of the
\* loop, with the index and sets the scan used
SkippedToken(k) ==
    ShouldSkip(symspell, user_terms, ignored_terms,
               ExclusionSpans(NormalizeApostrophes(scanned_text)),
               TokenWord(scanned_text, TokensOf(scanned_text)[k]),
               TokensOf(scanned_text)[k].start)

\* no term of the index is within the maximum edit distance of the word
NoTermNear(sym, word) ==
    Lookup(sym, word, "ALL")[1].distance > MaxEditDistance

\* the entries of the list at this offset
EntriesAt(list, pos) == { i \in 1..Len(list) : list[i].pos = pos }

\* C22: a token that no skip rule catches and that has no term of the index
\* within the maximum edit distance is recorded, with an empty suggestion
\* list.
C22_UnknownRecordedEmpty ==
    last.op = "check_text" =>
        \A k \in 1..Len(TokensOf(scanned_text)) :
            ( /\ ~SkippedToken(k)
              /\ NoTermNear(symspell,
                            TokenWord(scanned_text, TokensOf(scanned_text)[k])) )
            => /\ ReportedAt(misspelled_words, TokensOf(scanned_text)[k].start)
               /\ \A i \in EntriesAt(misspelled_words,
                                     TokensOf(scanned_text)[k].start) :
                     misspelled_words[i].sugg = << >>

\* C22 witness: the scan of "zzzzz", three or more edits from every term,
\* returned nothing
C22_Witness ==
    /\ last.op = "check_text"
    /\ scanned_text = << "z","z","z","z","z" >>
    /\ ~SkippedToken(1)
    /\ NoTermNear(symspell, scanned_text)
    /\ misspelled_words = << >>

\* token k of the scanned document begins with an uppercase letter
Capitalised(k) ==
    TokenWord(scanned_text, TokensOf(scanned_text)[k])[1] \in UpperLetters

\* the lower-cased form of token k is a distance-0 hit of the index
LowerIsExactHit(k) ==
    IsExactHit(symspell,
               Lower(TokenWord(scanned_text, TokensOf(scanned_text)[k])))

\* C23: a capitalised token whose lower-cased form is a distance-0 hit is
\* not reported, and a capitalised token that no skip rule catches (no
\* earlier rule, and its lower-cased form is not a distance-0 hit) is
\* reported.
C23_CapitalisedReportedIffNotExact ==
    last.op = "check_text" =>
        \A k \in 1..Len(TokensOf(scanned_text)) :
            Capitalised(k) =>
                /\ LowerIsExactHit(k)
                   => ~ReportedAt(misspelled_words,
                                  TokensOf(scanned_text)[k].start)
                /\ ~SkippedToken(k)
                   => ReportedAt(misspelled_words,
                                 TokensOf(scanned_text)[k].start)

\* C23 witness: the scan of "Tqq" returned nothing: "tqq" is two edits from
\* "the" and no distance-0 hit, "Tqq" is three edits from every term
C23_Witness ==
    /\ last.op = "check_text"
    /\ scanned_text = << "T","q","q" >>
    /\ ~SkippedToken(1)
    /\ ~LowerIsExactHit(1)
    /\ Lookup(symspell, << "t","q","q" >>, "TOP")[1].distance = 2
    /\ misspelled_words = << >>

\* C23 for the spec's example: the scan of "Teh" reports "Teh"
C23_TehReported ==
    (last.op = "check_text" /\ scanned_text = << "T","e","h" >>)
    => ReportedAt(misspelled_words, 0)

\* characters of the local part and of the domain of an email address
EmailLocalChars ==
    UpperLetters \cup LowerLetters \cup Digits \cup { ".", "_", "%", "+", "-" }
EmailDomainChars == UpperLetters \cup LowerLetters \cup Digits \cup { ".", "-" }

\* s is local@domain.tld: "@" at index at, the last "." at index dot
IsEmailWith(s, at, dot) ==
    /\ s[at] = "@" /\ s[dot] = "."
    /\ \A j \in 1..(at - 1) : s[j] \in EmailLocalChars
    /\ \A j \in (at + 1)..(dot - 1) : s[j] \in EmailDomainChars
    /\ \A j \in (dot + 1)..Len(s) : s[j] \in UpperLetters \cup LowerLetters
    /\ Len(s) - dot >= 2

IsEmail(s) ==
    \E at \in 2..Len(s) : \E dot \in (at + 2)..Len(s) : IsEmailWith(s, at, dot)

\* offset pos lies inside an email address of t
InEmail(t, pos) ==
    \E a \in 0..pos : \E b \in (pos + 1)..Len(t) : IsEmail(Slice(t, a, b))

\* C24: no token whose start offset lies inside a bare URL, a Markdown
\* inline link or an email address is reported.
C24_ExcludedSpansNotReported ==
    last.op = "check_text" =>
        \A k \in 1..Len(TokensOf(scanned_text)) :
            ( \/ InSpans(ExclusionSpans(NormalizeApostrophes(scanned_text)),
                         TokensOf(scanned_text)[k].start)
              \/ InEmail(NormalizeApostrophes(scanned_text),
                         TokensOf(scanned_text)[k].start) )
            => ~ReportedAt(misspelled_words, TokensOf(scanned_text)[k].start)

\* C24 for URLs and links: no token whose start offset lies inside a span of
\* url_pattern or link_pattern is reported.
C24_UrlAndLinkNotReported ==
    last.op = "check_text" =>
        \A k \in 1..Len(TokensOf(scanned_text)) :
            InSpans(ExclusionSpans(NormalizeApostrophes(scanned_text)),
                    TokensOf(scanned_text)[k].start)
            => ~ReportedAt(misspelled_words, TokensOf(scanned_text)[k].start)

\* C24 witness: the scan of "he@te.he" reported the "te" of the address
C24_Witness ==
    /\ last.op = "check_text"
    /\ scanned_text = << "h","e","@","t","e",".","h","e" >>
    /\ InEmail(scanned_text, 3)
    /\ Len(misspelled_words) = 1
    /\ misspelled_words[1].word = << "t","e" >>
    /\ misspelled_words[1].pos = 3

\* C24 witness for URLs and links: in "[te](te) te" only the third "te",
\* outside the link, is reported
C24_LinkWitness ==
    /\ last.op = "check_text"
    /\ scanned_text = << "[","t","e","]","(","t","e",")"," ","t","e" >>
    /\ Len(misspelled_words) = 1
    /\ misspelled_words[1].pos = 9

\* the word contains a digit
HasDigit(w) == \E i \in 1..Len(w) : w[i] \in Digits

\* C25: no token that contains a digit is reported.
C25_DigitTokensNotReported ==
    last.op = "check_text" =>
        \A k \in 1..Len(TokensOf(scanned_text)) :
            HasDigit(TokenWord(scanned_text, TokensOf(scanned_text)[k]))
            => ~ReportedAt(misspelled_words, TokensOf(scanned_text)[k].start)

\* C25 for numbers and ordinals: no token made of digits only, or of digits
\* followed by st, nd, rd or th, is reported.
C25_NumbersAndOrdinalsNotReported ==
    last.op = "check_text" =>
        \A k \in 1..Len(TokensOf(scanned_text)) :
            ( \/ IsDigitWord(TokenWord(scanned_text, TokensOf(scanned_text)[k]))
              \/ IsOrdinal(TokenWord(scanned_text, TokensOf(scanned_text)[k])) )
            => ~ReportedAt(misspelled_words, TokensOf(scanned_text)[k].start)

\* C25 witness: the scan of "te5" reported it
C25_Witness ==
    /\ last.op = "check_text"
    /\ scanned_text = << "t","e","5" >>
    /\ Len(misspelled_words) = 1
    /\ misspelled_words[1].word = << "t","e","5" >>

\* C25 witness for ordinals: the scan of "4th" reported nothing
C25_OrdinalWitness ==
    /\ last.op = "check_text"
    /\ scanned_text = << "4","t","h" >>
    /\ misspelled_words = << >>

\* the word is two or more uppercase letters
IsAcronym(w) == Len(w) >= 2 /\ \A i \in 1..Len(w) : w[i] \in UpperLetters

\* C26: no token of two or more letters, all uppercase, is reported.
C26_AcronymsNotReported ==
    last.op = "check_text" =>
        \A k \in 1..Len(TokensOf(scanned_text)) :
            IsAcronym(TokenWord(scanned_text, TokensOf(scanned_text)[k]))
            => ~ReportedAt(misspelled_words, TokensOf(scanned_text)[k].start)

\* C26 for three letters and more: no all-uppercase token of length >= 3
\* is reported while every term of the index is lower-case.
C26_LongAcronymsNotReported ==
    last.op = "check_text" =>
        \A k \in 1..Len(TokensOf(scanned_text)) :
            ( /\ IsAcronym(TokenWord(scanned_text, TokensOf(scanned_text)[k]))
              /\ Len(TokenWord(scanned_text, TokensOf(scanned_text)[k])) >= 3 )
            => ~ReportedAt(misspelled_words, TokensOf(scanned_text)[k].start)

\* C26 witness: the scan of "TE" reported it; "te" is not in the index
C26_Witness ==
    /\ last.op = "check_text"
    /\ scanned_text = << "T","E" >>
    /\ << "t","e" >> \notin DOMAIN symspell
    /\ Len(misspelled_words) = 1
    /\ misspelled_words[1].word = << "T","E" >>

\* the suffixes of a contraction or possessive
ContractionSuffixes ==
    { << "'","t" >>, << "'","r","e" >>, << "'","v","e" >>, << "'","l","l" >>,
      << "'","d" >>, << "'","s" >>, << "'","m" >> }

\* the word is one or more letters followed by one of the suffixes
IsContraction(w) ==
    \E s \in ContractionSuffixes :
        /\ Len(w) > Len(s)
        /\ EndsWith(w, s)
        /\ \A i \in 1..(Len(w) - Len(s)) : w[i] \in UpperLetters \cup LowerLetters

\* C27: no contraction or possessive token is reported.
C27_ContractionsNotReported ==
    last.op = "check_text" =>
        \A k \in 1..Len(TokensOf(scanned_text)) :
            IsContraction(TokenWord(scanned_text, TokensOf(scanned_text)[k]))
            => ~ReportedAt(misspelled_words, TokensOf(scanned_text)[k].start)

\* C27 for possessives: no token that ends in 's is reported.
C27_PossessivesNotReported ==
    last.op = "check_text" =>
        \A k \in 1..Len(TokensOf(scanned_text)) :
            EndsWith(Lower(TokenWord(scanned_text, TokensOf(scanned_text)[k])),
                     << "'","s" >>)
            => ~ReportedAt(misspelled_words, TokensOf(scanned_text)[k].start)

\* C27 witness: the scan of "he'd" reported it
C27_Witness ==
    /\ last.op = "check_text"
    /\ scanned_text = << "h","e","'","d" >>
    /\ Len(misspelled_words) = 1
    /\ misspelled_words[1].word = << "h","e","'","d" >>

\* C27 witness for possessives: the scan of "he's" reported nothing
C27_PossessiveWitness ==
    /\ last.op = "check_text"
    /\ scanned_text = << "h","e","'","s" >>
    /\ misspelled_words = << >>

---------------------------------------------------------------------------
(* Properties of the index                                                 *)

\* every term of the index is lower-case
IndexLowerCase == \A w \in DOMAIN symspell : Lower(w) = w

\* C28: every term of the index is lower-case, and no two terms of the
\* index are case variants of one word.
C28_IndexCaseFolded ==
    /\ IndexLowerCase
    /\ \A v, w \in DOMAIN symspell : Lower(v) = Lower(w) => v = w

\* C28 through the editor: the key handlers lower-case the word before they
\* call add_to_dictionary, so every term of the index is lower-case.
C28_HostIndexLowerCase ==
    (last.op # "init" /\ engines_created > 0) => IndexLowerCase

\* C28 witness: after add_to_dictionary("Te") and a scan, the index holds
\* "Te" and "te"
C28_Witness ==
    /\ last.op = "check_text"
    /\ << "T","e" >> \in DOMAIN symspell
    /\ << "t","e" >> \in DOMAIN symspell

---------------------------------------------------------------------------
(* Properties of the returned list                                         *)

\* C29: the list check_text returns is in document order: the start
\* offsets of its entries are strictly ascending.
C29_DocumentOrder ==
    last.op = "check_text" =>
        \A i \in 1..Len(misspelled_words) :
            \A j \in 1..Len(misspelled_words) :
                i < j => misspelled_words[i].pos < misspelled_words[j].pos

\* C29 witness: a check_text that ran while another check_text of the same
\* instance was running returned a list that holds one token twice
C29_Witness ==
    /\ last.op = "check_text"
    /\ \E i \in 1..Len(misspelled_words) :
          \E j \in 1..Len(misspelled_words) :
             i < j /\ misspelled_words[i] = misspelled_words[j]

\* C29 witness for a call with nothing running beside it: the scan of
\* "te the tee" returned the first and the third token, in that order
C29_SingleCallWitness ==
    /\ last.op = "check_text"
    /\ scanned_text = << "t","e"," ","t","h","e"," ","t","e","e" >>
    /\ Len(misspelled_words) = 2
    /\ misspelled_words[1].pos = 0
    /\ misspelled_words[2].pos = 7

\* C30: in every entry the suggestions are in order of non-decreasing edit
\* distance, and the five the status bar shows are the first five of the
\* list: no suggestion left out is closer than one that is shown.
C30_SuggestionsByDistance ==
    last.op = "check_text" =>
        \A e \in 1..Len(misspelled_words) :
            /\ \A i \in 1..Len(misspelled_words[e].sugg) :
                  \A j \in 1..Len(misspelled_words[e].sugg) :
                     i < j => misspelled_words[e].sugg[i].distance
                              <= misspelled_words[e].sugg[j].distance
            /\ Len(ShownSuggestions(misspelled_words[e].sugg)) <= 5
            /\ \A i \in 1..Len(ShownSuggestions(misspelled_words[e].sugg)) :
                  /\ ShownSuggestions(misspelled_words[e].sugg)[i]
                     = misspelled_words[e].sugg[i]
                  /\ \A j \in 1..Len(misspelled_words[e].sugg) :
                        j > Len(ShownSuggestions(misspelled_words[e].sugg))
                        => misspelled_words[e].sugg[i].distance
                           <= misspelled_words[e].sugg[j].distance

\* C30 witness: the scan of "te" returned six suggestions, at distances 1
\* and 2, of which five are shown
C30_Witness ==
    /\ last.op = "check_text"
    /\ scanned_text = << "t","e" >>
    /\ Len(misspelled_words) = 1
    /\ Len(misspelled_words[1].sugg) = 6
    /\ misspelled_words[1].sugg[1].distance = 1
    /\ misspelled_words[1].sugg[6].distance = 2
    /\ Len(ShownSuggestions(misspelled_words[1].sugg)) = 5

---------------------------------------------------------------------------
(* TextBuffer position conversions (editor/buffer.py) as functions of the  *)
(* document and the offset                                                 *)

\* documents of up to MaxTextLen characters over a letter and the newline
BufferTexts == UNION { [1..n -> { "a", "\n" }] : n \in 0..MaxTextLen }

\* the loop of TextBuffer.rowcol_to_offset, lines 52-63
RECURSIVE RowColLoop(_, _, _, _, _)
RowColLoop(lines, row, col, i, pos) ==
    IF i > Len(lines) THEN pos
    ELSE IF i - 1 < row
    THEN RowColLoop(lines, row, col, i + 1, pos + Len(lines[i]) + 1)
    ELSE pos + Min2(col, Len(lines[i]))

\* TextBuffer.rowcol_to_offset(row, col) on the buffer of document t
RowColToOffset(t, row, col) == RowColLoop(SplitLines(t), row, col, 1, 0)

\* a buffer that holds the document, nothing else in use
BufferInit ==
    /\ text \in BufferTexts
    /\ keys = 0
    /\ cursor_location = << 0, 0 >>
    /\ spellcheck_active = FALSE
    /\ spellchecker = 0
    /\ status_bar = [spellcheck_mode |-> FALSE, loading |-> FALSE,
                     current_word |-> << >>, suggestions |-> << >>,
                     progress |-> << 0, 0 >>]
    /\ svc = [spellchecker |-> 0, loading |-> FALSE, load_event |-> "None"]
    /\ workers = [w \in Workers |-> NoWorker]
    /\ user_file = << >>
    /\ user_terms = {}
    /\ ignored_terms = {}
    /\ symspell = EmptyIndex
    /\ misspelled_words = << >>
    /\ current_index = -1
    /\ scanned_text = << >>
    /\ engines_created = 0
    /\ loads_started = 0
    /\ loads_failed = 0
    /\ received = {}
    /\ crashed = FALSE
    /\ last = NoLast

\* row, col = convert_text_position_to_cursor(k); move_cursor(row, col)
BufferConvert(k) ==
    /\ cursor_location' = ConvertTextPositionToCursor(text, k)
    /\ last' = [NoLast EXCEPT !.op = "convert", !.key = k]
    /\ UNCHANGED << text, keys, spellcheck_active, spellchecker, status_bar,
                    serviceVars, workers, engineVars, crashed >>

BufferNext == \E k \in 0..Len(text) : BufferConvert(k)

BufferSpec == BufferInit /\ [][BufferNext]_vars

\* (row, col) is a location of document t: a line of t and a column of it
IsLocation(t, loc) ==
    /\ 0 <= loc[1] /\ loc[1] < Len(SplitLines(t))
    /\ 0 <= loc[2] /\ loc[2] <= Len(SplitLines(t)[loc[1] + 1])

\* C31: for every offset k of the document, 0 <= k <= len(text),
\* convert_text_position_to_cursor(k) is a (row, col) with row below the
\* number of lines and col at most the length of that line, and
\* rowcol_to_offset(row, col) is k; the location a conversion left is the
\* one of the offset it was given.
C31_ConversionRoundTrip ==
    /\ \A k \in 0..Len(text) :
          /\ IsLocation(text, ConvertTextPositionToCursor(text, k))
          /\ RowColToOffset(text, ConvertTextPositionToCursor(text, k)[1],
                            ConvertTextPositionToCursor(text, k)[2]) = k
    /\ last.op = "convert" =>
          /\ IsLocation(text, cursor_location)
          /\ RowColToOffset(text, cursor_location[1], cursor_location[2])
             = last.key

\* C31 witness: offset 3 of "a\na\n" was converted to row 1, column 1
C31_Witness ==
    /\ last.op = "convert"
    /\ text = << "a", "\n", "a", "\n" >>
    /\ last.key = 3
    /\ cursor_location = << 1, 1 >>

---------------------------------------------------------------------------
(* The application's own toggle: WrtrApp.action_toggle_spell_check          *)

\* action_toggle_spell_check (main.py): the focused editor's status bar
\* enters or leaves spellcheck mode; the editor itself is not told and no
\* scan is scheduled
AppToggleSpellCheck ==
    /\ KeyEvent
    /\ status_bar' = IF ~status_bar.spellcheck_mode
                     THEN EnterSpellcheckMode(status_bar)
                     ELSE ExitSpellcheckMode(status_bar)
    /\ last' = [NoLast EXCEPT !.op = "app_toggle"]
    /\ UNCHANGED << text, cursor_location, spellcheck_active, spellchecker,
                    serviceVars, workers, engineVars, crashed >>

\* entering and leaving spellcheck mode: the editor's F7 and Escape, the
\* application's action, and the tasks that F7 starts
ModeNext ==
    \/ KeyF7
    \/ KeyEscape
    \/ AppToggleSpellCheck
    \/ \E w \in Workers : WorkerRun(w)
    \/ \E w \in Workers, o \in LoadOutcomes : LoadComplete(w, o)
    \/ \E w \in Workers : WaiterResume(w)
    \/ \E w \in Workers : ExecBegin(w)
    \/ \E w \in Workers : ExecFinish(w)
    \/ \E w \in Workers : WorkerResume(w)

ModeSpec == Init /\ [][ModeNext]_vars

\* check_text returns to the worker in slot w: the step ExecFinish takes,
\* told by what it does to the worker
ScanReturns(w) ==
    /\ ~crashed
    /\ workers[w].pc = "scanning"
    /\ workers' = [MarkOverlap(workers) EXCEPT
                      ![w].pc = "scanned", ![w].ret = "alias",
                      ![w].overlap = workers[w].overlap]

\* one step of the _spell_worker task in slot w, on the event loop or on
\* the executor thread
WorkerStep(w) ==
    \/ WorkerRun(w)
    \/ \E o \in LoadOutcomes : LoadComplete(w, o)
    \/ WaiterResume(w)
    \/ ExecBegin(w)
    \/ ScanReturns(w)
    \/ WorkerResume(w)

\* asyncio runs every task that is ready and the executor runs every job
\* handed to it: a worker that can take a step takes it (each step moves
\* the worker on, so it shows in workers)
FairModeSpec == ModeSpec /\ \A w \in Workers : WF_workers(WorkerStep(w))

\* the run has not ended with an exception and a further load can start
Running == ~crashed /\ loads_started < MaxLoads

\* C32: once spellcheck mode is entered the status bar shows its loading
\* state, and the loading state is eventually cleared: while the program
\* runs it does not stay set forever.
C32_LoadingEventuallyCleared ==
    (status_bar.spellcheck_mode /\ status_bar.loading)
        ~> (~status_bar.loading \/ ~Running)

\* C32, the mode entered: the step that enters spellcheck mode sets the
\* loading state
C32_EnteringShowsLoading ==
    [][(~status_bar.spellcheck_mode /\ status_bar'.spellcheck_mode)
          => status_bar'.loading]_vars

\* C32, until the result is ready: the loading state is cleared only by
\* the worker that applies the result of the scan
C32_LoadingUntilResult ==
    [][(status_bar.loading /\ ~status_bar'.loading)
          => last'.op = "worker_apply"]_vars

\* C32 witness: the load failed, no worker is left and the status bar is
\* in spellcheck mode showing the loading state
C32_Witness ==
    /\ status_bar.spellcheck_mode
    /\ status_bar.loading
    /\ spellcheck_active
    /\ loads_failed > 0
    /\ \A w \in Workers : workers[w].pc = "free"
    /\ Running

\* C32 witness of the application's toggle: the status bar is in
\* spellcheck mode showing the loading state, the editor is not in
\* spellcheck mode and no worker was ever started
C32_AppToggleWitness ==
    /\ last.op = "app_toggle"
    /\ status_bar.spellcheck_mode
    /\ status_bar.loading
    /\ ~spellcheck_active
    /\ loads_started = 0
    /\ \A w \in Workers : workers[w].pc = "free"

---------------------------------------------------------------------------
(* The engine reference of the editor while spellcheck mode is active      *)

\* what a spellcheck key handler leaves in last.op: the navigation keys, the
\* dictionary keys, a suggestion key, or the attribute error
SpellcheckKeyOps ==
    { "next_word", "previous_word", "ctrl_a", "ctrl_i", "accept", "raised" }

\* C33: whenever a spellcheck key (F3, Shift+F3, Ctrl+A, Ctrl+I, a
\* suggestion key) is handled while spellcheck mode is active,
\* editor.spellchecker is a loaded engine and not None, also between F7 and
\* the end of the background load.
C33_EngineLoadedWhenKeyHandled ==
    [][ (spellcheck_active /\ last'.op \in SpellcheckKeyOps)
          => spellchecker # 0 ]_vars

\* C33 witness: F7 was pressed, the load has not completed and has not
\* failed, and a spellcheck key was handled with editor.spellchecker None
C33_Witness ==
    /\ last.op = "raised"
    /\ spellcheck_active
    /\ spellchecker = 0
    /\ loads_failed = 0
    /\ \E w \in Workers : workers[w].pc \in { "start", "await_load" }

---------------------------------------------------------------------------
(* Worker completion after spellcheck mode was left                        *)

\* the spellcheck information of the status bar: word, suggestions, progress
SpellcheckInfo(sb) == << sb.current_word, sb.suggestions, sb.progress >>

\* C35: once spellcheck mode has been left (F7, Ctrl+F7 or Escape), a
\* background scan that completes afterwards does not move the caret and
\* writes no word, suggestion or progress information to the status bar.
C35_NoDisplayAfterExit ==
    [][ (~spellcheck_active /\ last'.op = "worker_apply")
          => /\ cursor_location' = cursor_location
             /\ SpellcheckInfo(status_bar') = SpellcheckInfo(status_bar) ]_vars

\* C35 witness: spellcheck mode was left, then the worker applied its
\* result: the status bar is out of spellcheck mode and shows a word
C35_Witness ==
    /\ last.op = "worker_apply"
    /\ ~spellcheck_active
    /\ ~status_bar.spellcheck_mode
    /\ status_bar.current_word # << >>

---------------------------------------------------------------------------
(* The two spellcheck mode flags                                           *)

\* C36: after every completed key handler or application action (the F7 /
\* Ctrl+F7 toggle, Escape, the application's toggle_spell_check action, the
\* exit when a rescan finds nothing) the editor's _spellcheck_active flag
\* equals the status bar's spellcheck_mode flag.
C36_FlagsAgree ==
    spellcheck_active = status_bar.spellcheck_mode

\* C36 witness: the application's action took the status bar out of
\* spellcheck mode while the editor stays in it
C36_Witness ==
    /\ last.op = "app_toggle"
    /\ spellcheck_active
    /\ ~status_bar.spellcheck_mode

---------------------------------------------------------------------------
(* The engine of src/spellcheck.py: add_to_dictionary                      *)

MaxFileLen == 4

\* re.sub(r'[^\w\']', '', word).lower()
CleanWord(word) ==
    Lower(SelectSeq(word, LAMBDA c : IsWordChar(c) \/ c = "'"))

\* add_to_dictionary(word) of src/spellcheck.py: the lines of the file are
\* compared with the cleaned word, the line "<word> 1" is appended, the
\* cleaned word and, when it differs, the lower-cased word enter the index
LegacyAddToDictionary(word) ==
    /\ Len(user_file) < MaxFileLen
    /\ last' = [NoLast EXCEPT !.op = "add_to_dictionary", !.word = word]
    /\ IF CleanWord(word) \in { user_file[i] : i \in 1..Len(user_file) }
       THEN UNCHANGED << user_file, symspell >>
       ELSE /\ user_file' = Append(user_file, CleanWord(word) \o << " ", "1" >>)
            /\ symspell' =
                  IF CleanWord(word) # Lower(word)
                  THEN CreateDictionaryEntry(
                          CreateDictionaryEntry(symspell, CleanWord(word), 1),
                          Lower(word), 1)
                  ELSE CreateDictionaryEntry(symspell, CleanWord(word), 1)
    /\ UNCHANGED << editorVars, keys, spellchecker, serviceVars, workers,
                    misspelled_words, current_index, user_terms,
                    ignored_terms, scanned_text, crashed >>

LegacyNext ==
    \E word \in { << "t","e" >>, << "T","e" >>, << "t","e","!" >>,
                  << "h","e" >>, << "e","h" >> } :
        LegacyAddToDictionary(word)

LegacySpec == Init /\ [][LegacyNext]_vars

\* the term a line of the user dictionary file records: the line up to its
\* first space ("<term>" in the editor's engine, "<term> 1" in the other)
RECURSIVE LineTerm(_)
LineTerm(line) ==
    IF line = << >> \/ Head(line) = " " THEN << >>
    ELSE << Head(line) >> \o LineTerm(Tail(line))

\* C37: in both engine variants add_to_dictionary appends nothing for a
\* word the user dictionary file already records: after any sequence of
\* add_to_dictionary calls each term occupies at most one line of the file.
C37_OneLinePerTerm ==
    \A i, j \in 1..Len(user_file) :
        LineTerm(user_file[i]) = LineTerm(user_file[j]) => i = j

\* C37 witness: add_to_dictionary was called twice for the same word and
\* the file holds its line twice
C37_Witness ==
    /\ last.op = "add_to_dictionary"
    /\ last.word = << "t","e" >>
    /\ user_file = << << "t","e"," ","1" >>, << "t","e"," ","1" >> >>

\* C37 witness of the editor's engine: add_to_dictionary was called for a
\* word whose term the file records, and the file records it once
C37_CurrentWitness ==
    /\ last.op = "add_to_dictionary"
    /\ last.ok
    /\ Cardinality({ i \in 1..Len(user_file) :
                        user_file[i] = Lower(last.word) }) = 1
    /\ Lower(last.word) # last.word

---------------------------------------------------------------------------
(* Two panes on the singleton engine                                       *)

\* the document of the other pane: a correct word and a misspelled one
OtherPaneDocument == << "h","e"," ","h","t" >>

\* F7 in the other pane, up to the end of its _spell_worker: the pane gets
\* the cached engine from get_spellchecker and runs check_text on its own
\* document; taken while no task of this pane is under way
OtherPaneScan ==
    /\ KeyEvent
    /\ HasEngine(svc)
    /\ \A w \in Workers : workers[w].pc = "free"
    /\ user_terms' = ReloadUserTerms(user_file)
    /\ symspell' = CreateEntries(symspell, ReloadUserTerms(user_file))
    /\ misspelled_words' =
          Scanned(misspelled_words,
                  Misspellings(symspell', user_terms', ignored_terms,
                               OtherPaneDocument))
    /\ current_index' = ResetIndex(misspelled_words')
    /\ scanned_text' = OtherPaneDocument
    /\ last' = [NoLast EXCEPT !.op = "other_pane_scan"]
    /\ UNCHANGED << editorVars, spellchecker, serviceVars, workers,
                    ignored_terms, user_file, crashed >>

\* this pane's F7, Escape and F3 with its tasks, and the other pane's scan
PaneNext ==
    \/ KeyF7
    \/ KeyEscape
    \/ KeyF3
    \/ OtherPaneScan
    \/ \E w \in Workers : WorkerRun(w)
    \/ \E w \in Workers, o \in LoadOutcomes : LoadComplete(w, o)
    \/ \E w \in Workers : WaiterResume(w)
    \/ \E w \in Workers : ExecBegin(w)
    \/ \E w \in Workers : ExecFinish(w)
    \/ \E w \in Workers : WorkerResume(w)

PaneSpec == Init /\ [][PaneNext]_vars

\* C34: with two panes on the shared engine, a scan in one pane does not
\* change the misspelling list or the cursor the other pane's next
\* navigation uses, and the entry a pane navigates to was produced by a
\* scan of that pane's own document.
C34_PanesDoNotInterfere ==
    [][ /\ (last'.op = "other_pane_scan" /\ spellcheck_active)
            => /\ misspelled_words' = misspelled_words
               /\ current_index' = current_index
        /\ (last'.op = "next_word" /\ misspelled_words # << >>)
            => scanned_text = GetText(text) ]_vars

\* C34 witness: F3 in this pane went to an entry of the other pane's
\* document: the status bar shows a word of that document
C34_Witness ==
    /\ last.op = "next_word"
    /\ spellcheck_active
    /\ scanned_text = OtherPaneDocument
    /\ GetText(text) # OtherPaneDocument
    /\ status_bar.current_word = << "h","t" >>

====
